---- MODULE Spec2Model ----
(***************************************************************************)
(* ArchSDN controller: the cookie / MPLS-label id allocators of            *)
(* archsdn/engine/globals.py and the implementation-task guard and         *)
(* activate_scenario handler of archsdn/p2p_requests.py.                   *)
(***************************************************************************)
EXTENDS Integers, Sequences, FiniteSets, Bags, TLC

(***************************************************************************)
(* Python integers are unbounded and the cookie ceiling is 2^64 - 1, which *)
(* is beyond the integers of the model checker.  An id is therefore kept   *)
(* as five 16-bit words, most significant first (80 bits: 2^64 itself is   *)
(* representable, nothing wraps).                                          *)
(***************************************************************************)
WordBase == 2^16

Words == 1..5

IntToId(k) == <<0, 0, 0, k \div WordBase, k % WordBase>>

\* n + 1
Succ(n) ==
  LET i == CHOOSE j \in Words :
             /\ n[j] < WordBase - 1
             /\ \A k \in (j+1)..5 : n[k] = WordBase - 1
  IN  [k \in Words |-> IF k < i THEN n[k] ELSE IF k = i THEN n[k] + 1 ELSE 0]

\* n - 1 (n > 0)
Pred(n) ==
  LET i == CHOOSE j \in Words :
             /\ n[j] > 0
             /\ \A k \in (j+1)..5 : n[k] = 0
  IN  [k \in Words |-> IF k < i THEN n[k] ELSE IF k = i THEN n[k] - 1
                                              ELSE WordBase - 1]

RECURSIVE Plus(_, _)
Plus(n, k) == IF k = 0 THEN n ELSE Plus(Succ(n), k - 1)

RECURSIVE Minus(_, _)
Minus(n, k) == IF k = 0 THEN n ELSE Minus(Pred(n), k - 1)

\* a < b
Less(a, b) == \E i \in Words : /\ a[i] < b[i]
                               /\ \A k \in 1..(i-1) : a[k] = b[k]

\* a <= b
Leq(a, b) == a = b \/ Less(a, b)

Range(s) == {s[i] : i \in DOMAIN s}

(***************************************************************************)
(* Bounds of the model.                                                    *)
(***************************************************************************)
\* how far above its starting point a run drives an allocator's counter
Span == 2

(***************************************************************************)
(* The two allocators.                                                     *)
(***************************************************************************)
Allocators == {"cookie", "mpls"}

Threads == {"t1", "t2"}

NoThread == "none"

\* __cookie_id_counter = 0
COOKIE_ID_INITIAL == IntToId(0)

\* __mpls_label_id_counter = 16
MPLS_LABEL_ID_INITIAL == IntToId(16)

\* 0xFFFFFFFFFFFFFFFF
COOKIE_ID_CEILING == <<0, 65535, 65535, 65535, 65535>>

\* 0x100000
MPLS_LABEL_ID_CEILING == <<0, 0, 0, 16, 0>>

\* the value the counter starts from, which free() also uses as the
\* exclusive lower bound of a valid id (cookie_id <= 0, label_id <= 16)
LowerBound(a) == IF a = "cookie" THEN COOKIE_ID_INITIAL ELSE MPLS_LABEL_ID_INITIAL

\* the counter value at which alloc raises ValueError
Ceiling(a) == IF a = "cookie" THEN COOKIE_ID_CEILING ELSE MPLS_LABEL_ID_CEILING

\* the largest id of the documented range: [1, 2^64-1] and [17, 2^20-1]
RangeMax(a) == IF a = "cookie" THEN <<0, 65535, 65535, 65535, 65535>>
                               ELSE <<0, 0, 0, 15, 65535>>

VARIABLES
  counter,     \* counter[a]: __cookie_id_counter / __mpls_label_id_counter
  pool,        \* pool[a]: __recycled_cookie_ids / __recycled_mpls_labels (a list)
  lock,        \* lock[a]: the thread inside "with __cookies_lock" / "with __mpls_lock"
  pc,          \* pc[t]: where thread t stands in alloc / free
  th,          \* th[t]: the locals of the call thread t is executing
  allocated,   \* allocated[a]: bag of the ids returned by alloc and not yet freed
  origin,      \* origin[a]: the counter at the start of the run; the ids in
               \* (lower bound, origin] are held by callers that keep them
  last         \* the call the latest step completed (arguments, state before it,
               \* outcome), NoLast after any other step; a call of the Q and
               \* KSPL tables when those are exercised on their own

VARIABLES
  tasks,       \* tasks[c][class]: __scenario_implementation_tasks of controller c
  scenarios,   \* scenarios[c]: active_scenarios, gpsid -> (handles, adjacent sectors)
  qvalues,     \* qvalues[c]: QValues, (key, target) -> Q-value in thousandths
  kspl,        \* kspl[c]: kspl, (key, target) -> known shortest path length
  bandwidth,   \* bandwidth[c][link]: free bandwidth of the port of c on that link
  down,        \* the links that are administratively down
  services,    \* services[c]: the service objects installed by the installers
  labels,      \* labels[c]: the MPLS label allocator of c (counter, pool)
  net,         \* peer RPC messages in flight
  calls,       \* calls[k]: the activate_scenario invocations (suspended or returned)
  injected,    \* the number of requests sent by the source sector
  faults,      \* the number of peer connections and peer calls that failed
  terminations, \* the number of terminate_scenario requests of the source sector
  wire         \* one connection to the RPC server: the client end (a peer
               \* proxy or another implementation of the protocol), the frames
               \* on their way and the client_handler task that serves them

allocVars == <<counter, pool, lock, pc, th, allocated, origin, last>>

engineVars == <<tasks, scenarios, qvalues, kspl, bandwidth, down, services, labels,
                net, calls, injected, faults, terminations, wire>>

vars == <<counter, pool, lock, pc, th, allocated, origin, last,
          tasks, scenarios, qvalues, kspl, bandwidth, down, services, labels,
          net, calls, injected, faults, terminations, wire>>

(***************************************************************************)
(* Pure parts of the allocators.                                           *)
(***************************************************************************)
\* max(__recycled_cookie_ids)
MaxOf(list) == CHOOSE x \in Range(list) : \A y \in Range(list) : Leq(y, x)

\* list.remove(x): drops the first occurrence of x
ListRemove(list, x) ==
  LET i == CHOOSE j \in DOMAIN list :
             list[j] = x /\ \A k \in 1..(j-1) : list[k] # x
  IN  SubSeq(list, 1, i - 1) \o SubSeq(list, i + 1, Len(list))

\* list.pop(): the last element, and the list without it
ListPopValue(list) == list[Len(list)]

ListPopRest(list) == SubSeq(list, 1, Len(list) - 1)

\* the "while len(recycled) > 0" loop of free: drop the maximum of the pool
\* and decrement the counter as long as the two are equal
\* mutant: free appends and never compacts
Compact_None(cnt, list) == [counter |-> cnt, pool |-> list]

\* mutant: "if" in place of "while", a single compaction step
Compact_Once(cnt, list) ==
  IF Len(list) > 0 /\ cnt = MaxOf(list)
    THEN [counter |-> Pred(cnt), pool |-> ListRemove(list, MaxOf(list))]
    ELSE [counter |-> cnt, pool |-> list]

RECURSIVE Compact(_, _)
Compact(cnt, list) ==
  IF Len(list) > 0 /\ cnt = MaxOf(list)
    THEN Compact(Pred(cnt), ListRemove(list, MaxOf(list)))
    ELSE [counter |-> cnt, pool |-> list]

\* mutant: free without the "already free" check
FreeRejects_NoDoubleFreeCheck(a, id, cnt, list) ==
  \/ Leq(id, LowerBound(a))
  \/ Less(cnt, id)

\* mutant: free without the "was not allocated" check
FreeRejects_NoCounterCheck(a, id, cnt, list) ==
  \/ Leq(id, LowerBound(a))
  \/ id \in Range(list)

\* the checks of free that raise ValueError
FreeRejects(a, id, cnt, list) ==
  \/ Leq(id, LowerBound(a))        \* cookie_id <= 0, label_id <= 16
  \/ Less(cnt, id)                 \* cookie_id > __cookie_id_counter
  \/ id \in Range(list)            \* cookie_id in __recycled_cookie_ids

\* the first check of alloc: the counter stands at the ceiling
AllocExhausted(a, cnt) == cnt = Ceiling(a)

\* mutant: the counter and the pool are not guarded by the lock
LockAvailable_NoLock(a) == TRUE

\* "with __cookies_lock": a thread enters when no thread holds the lock
LockAvailable(a) == lock[a] = NoThread

(***************************************************************************)
(* Ghost bookkeeping of the callers.                                       *)
(***************************************************************************)
\* id is held by a caller: returned by alloc and not freed since
Outstanding(a, id) ==
  \/ BagIn(id, allocated[a])
  \/ Less(LowerBound(a), id) /\ Leq(id, origin[a])

\* the number of callers that hold id
Holders(a, id) ==
  (IF BagIn(id, allocated[a]) THEN CopiesIn(id, allocated[a]) ELSE 0)
  + (IF Less(LowerBound(a), id) /\ Leq(id, origin[a]) THEN 1 ELSE 0)

\* the ids a run can touch: the few above the starting point
Window(a) == {Plus(origin[a], k) : k \in 1..(Span + 1)}

\* ids passed to free: those of the window and the lower bound itself
FreeArgs(a) == Window(a) \cup {LowerBound(a)}

NoCall == [op |-> "none", a |-> "cookie", arg |-> IntToId(0),
           preCounter |-> IntToId(0), prePool |-> <<>>, preHeld |-> FALSE,
           popped |-> FALSE, tmp |-> IntToId(0), value |-> IntToId(0)]

NoLast == [op |-> "none", a |-> "cookie", arg |-> IntToId(0),
           preCounter |-> IntToId(0), prePool |-> <<>>, preHeld |-> FALSE,
           outcome |-> "none", value |-> IntToId(0)]

Completed(t, outcome, value) ==
  [op |-> th[t].op, a |-> th[t].a, arg |-> th[t].arg,
   preCounter |-> th[t].preCounter, prePool |-> th[t].prePool,
   preHeld |-> th[t].preHeld,
   outcome |-> outcome, value |-> value]

(***************************************************************************)
(* The federation the engine runs in.  The source sector S sends requests  *)
(* to A; A reaches B over two links and the dead-end sector C over one; B  *)
(* reaches T, the sector of the target host.                               *)
(*                                                                         *)
(*        S ---SA--- A ===AB1,AB2=== B ---BT--- T (host hT)                *)
(*                   |                                                     *)
(*                   AC                                                    *)
(*                   |                                                     *)
(*                   C                                                     *)
(***************************************************************************)
Controllers == {"A", "B", "C", "T"}

SourceSector == "S"

\* the inter-sector links, in the order the topology lists them
LinkOrder == <<"SA", "AB1", "AB2", "AC", "BT">>

LinkIds == Range(LinkOrder)

LinkEnds(l) ==
  CASE l = "SA"  -> {"S", "A"}
    [] l = "AB1" -> {"A", "B"}
    [] l = "AB2" -> {"A", "B"}
    [] l = "AC"  -> {"A", "C"}
    [] l = "BT"  -> {"B", "T"}

\* the position, in the line of switches of sector c, of the switch that
\* link l is plugged into
SwitchOf(c, l) ==
  CASE c = "A" /\ l = "SA"  -> 1
    [] c = "A" /\ l = "AB1" -> 1
    [] c = "A" /\ l = "AB2" -> 2
    [] c = "A" /\ l = "AC"  -> 2
    [] c = "B" /\ l = "AB1" -> 1
    [] c = "B" /\ l = "AB2" -> 1
    [] c = "B" /\ l = "BT"  -> 2
    [] c = "C" /\ l = "AC"  -> 1
    [] c = "T" /\ l = "BT"  -> 1
    [] OTHER -> 1

TargetHost == "hT"

\* the switch of T the target host is attached to
HostSwitch == 3

\* the switch of sector c its host is attached to
HostSwitchAt(c) == IF c = "T" THEN HostSwitch ELSE 2

\* central.query_address_info(ipv4=...).controller_id
OwnerOf(ip) == IF ip = "hA" THEN "A" ELSE "T"

\* the links of sector c
LinksAt(c) == {l \in LinkIds : c \in LinkEnds(l)}

None == "None"

\* no label (local_mpls_label = None), no gpsid, no stored path length
NoLabel == <<>>

NoGps == <<None, None, None, None>>

NoLength == <<>>

\* the global path search ids in use:
\* (source_controller_id, source_ipv4, target_ipv4, scenario_type)
SourceGpsIds == {<<"S", "hS", "hT", "ICMPv4">>, <<"S", "hS", "hT", "IPv4">>}

\* a search that started at A and comes back to it over another sector
LoopGpsId == <<"A", "hA", "hT", "ICMPv4">>

GpsIds == SourceGpsIds \cup {LoopGpsId}

\* a search of the source sector for a host of sector A
LocalGpsId == <<"S", "hS", "hA", "ICMPv4">>

\* the searches that are activated and terminated
TerminableGpsIds == SourceGpsIds \cup {LocalGpsId}

\* the classes of the implementation-task guard
TaskClasses == {<<"IPv4", "ICMP">>, <<"IPv4", "UDP">>, <<"IPv4", "TCP">>,
                <<"IPv4", "*">>, <<"MPLS", "*">>}

\* bandwidth of a port that is up, and the amount an ICMP path reserves
PortCapacity == 200

IcmpBandwidth == 100

\* the label the source sector stamps on the traffic it hands over
SourceLabel == IntToId(1000)

(***************************************************************************)
(* Initial state: a fresh controller (counter at its initial value), or a  *)
(* controller whose counter has climbed to Span below the ceiling with     *)
(* every id handed out and none returned.                                  *)
(***************************************************************************)
Origins(a) == {LowerBound(a), Minus(Ceiling(a), Span)}

AllocInit ==
  /\ origin \in {f \in [Allocators -> {LowerBound(a) : a \in Allocators}
                                      \cup {Minus(Ceiling(a), Span) : a \in Allocators}] :
                   \A a \in Allocators : f[a] \in Origins(a)}
  /\ counter = origin
  /\ pool = [a \in Allocators |-> <<>>]
  /\ lock = [a \in Allocators |-> NoThread]
  /\ pc = [t \in Threads |-> "idle"]
  /\ th = [t \in Threads |-> NoCall]
  /\ allocated = [a \in Allocators |-> EmptyBag]
  /\ last = NoLast

(***************************************************************************)
(* alloc_cookie_id / alloc_mpls_label_id                                   *)
(***************************************************************************)
\* the call enters "with lock:"
AllocEnter(t, a) ==
  /\ pc[t] = "idle"
  /\ LockAvailable(a)
  \* bound of the model: the counter is not driven further than Span
  /\ \/ Less(counter[a], Plus(origin[a], Span))
     \/ Len(pool[a]) > 0
     \/ AllocExhausted(a, counter[a])
  /\ lock' = [lock EXCEPT ![a] = t]
  /\ pc' = [pc EXCEPT ![t] = "alloc_check"]
  /\ th' = [th EXCEPT ![t] = [NoCall EXCEPT !.op = "alloc", !.a = a,
                                           !.preCounter = counter[a],
                                           !.prePool = pool[a]]]
  /\ last' = NoLast
  /\ UNCHANGED <<counter, pool, allocated, origin>>
  /\ UNCHANGED engineVars

\* if counter == ceiling: raise; if len(recycled): pop; else read the counter
AllocCheck(t) ==
  LET a == th[t].a IN
  /\ pc[t] = "alloc_check"
  /\ IF AllocExhausted(a, counter[a])
       THEN /\ pc' = [pc EXCEPT ![t] = "idle"]
            /\ lock' = [lock EXCEPT ![a] = NoThread]
            /\ last' = Completed(t, "Exhausted", IntToId(0))
            /\ th' = [th EXCEPT ![t] = NoCall]
            /\ UNCHANGED <<counter, pool>>
       ELSE IF Len(pool[a]) > 0
         THEN /\ pool' = [pool EXCEPT ![a] = ListPopRest(@)]
              /\ th' = [th EXCEPT ![t].popped = TRUE,
                                  ![t].value = ListPopValue(pool[a])]
              /\ pc' = [pc EXCEPT ![t] = "alloc_return"]
              /\ last' = NoLast
              /\ UNCHANGED <<counter, lock>>
         ELSE /\ th' = [th EXCEPT ![t].tmp = counter[a]]
              /\ pc' = [pc EXCEPT ![t] = "alloc_store"]
              /\ last' = NoLast
              /\ UNCHANGED <<counter, pool, lock>>
  /\ UNCHANGED <<allocated, origin>>
  /\ UNCHANGED engineVars

\* __cookie_id_counter = __cookie_id_counter + 1 (the store of the sum)
AllocStore(t) ==
  LET a == th[t].a IN
  /\ pc[t] = "alloc_store"
  /\ counter' = [counter EXCEPT ![a] = Succ(th[t].tmp)]
  /\ pc' = [pc EXCEPT ![t] = "alloc_return"]
  /\ last' = NoLast
  /\ UNCHANGED <<pool, lock, th, allocated, origin>>
  /\ UNCHANGED engineVars

\* return cookie_id / return __cookie_id_counter; leaving "with" frees the lock
AllocReturn(t) ==
  LET a == th[t].a
      id == IF th[t].popped THEN th[t].value ELSE counter[a]
  IN
  /\ pc[t] = "alloc_return"
  /\ allocated' = [allocated EXCEPT ![a] = @ (+) SetToBag({id})]
  /\ lock' = [lock EXCEPT ![a] = NoThread]
  /\ pc' = [pc EXCEPT ![t] = "idle"]
  /\ last' = Completed(t, "ok", id)
  /\ th' = [th EXCEPT ![t] = NoCall]
  /\ UNCHANGED <<counter, pool, origin>>
  /\ UNCHANGED engineVars

(***************************************************************************)
(* free_cookie_id / free_mpls_label_id                                     *)
(***************************************************************************)
FreeEnter(t, a, id) ==
  /\ pc[t] = "idle"
  /\ LockAvailable(a)
  /\ lock' = [lock EXCEPT ![a] = t]
  /\ pc' = [pc EXCEPT ![t] = "free_body"]
  /\ th' = [th EXCEPT ![t] = [NoCall EXCEPT !.op = "free", !.a = a, !.arg = id,
                                           !.preCounter = counter[a],
                                           !.prePool = pool[a],
                                           !.preHeld = Outstanding(a, id)]]
  /\ last' = NoLast
  /\ UNCHANGED <<counter, pool, allocated, origin>>
  /\ UNCHANGED engineVars

\* the body of free under the lock: the checks, the append, the compaction
FreeBody(t) ==
  LET a == th[t].a
      id == th[t].arg
      c == Compact(counter[a], Append(pool[a], id))
  IN
  /\ pc[t] = "free_body"
  /\ IF FreeRejects(a, id, counter[a], pool[a])
       THEN /\ last' = Completed(t, "InvalidArgument", IntToId(0))
            /\ UNCHANGED <<counter, pool, allocated>>
       ELSE /\ counter' = [counter EXCEPT ![a] = c.counter]
            /\ pool' = [pool EXCEPT ![a] = c.pool]
            /\ allocated' = [allocated EXCEPT ![a] =
                               IF BagIn(id, @) THEN @ (-) SetToBag({id}) ELSE @]
            /\ last' = Completed(t, "ok", IntToId(0))
  /\ lock' = [lock EXCEPT ![a] = NoThread]
  /\ pc' = [pc EXCEPT ![t] = "idle"]
  /\ th' = [th EXCEPT ![t] = NoCall]
  /\ UNCHANGED origin
  /\ UNCHANGED engineVars

AllocNext ==
  \/ \E t \in Threads, a \in Allocators : AllocEnter(t, a)
  \/ \E t \in Threads : AllocCheck(t)
  \/ \E t \in Threads : AllocStore(t)
  \/ \E t \in Threads : AllocReturn(t)
  \/ \E t \in Threads, a \in Allocators : \E id \in FreeArgs(a) : FreeEnter(t, a, id)
  \/ \E t \in Threads : FreeBody(t)


(***************************************************************************)
(* Properties of the allocators.                                           *)
(***************************************************************************)
\* no call is inside the lock of allocator a
Quiescent(a) == lock[a] = NoThread

\* lower bound < id <= counter
InCounterRange(a, id) == Less(LowerBound(a), id) /\ Leq(id, counter[a])

\* the largest id held by a caller (the ids up to origin are all held)
LargestAllocated(a) ==
  IF BagToSet(allocated[a]) = {}
    THEN origin[a]
    ELSE CHOOSE x \in BagToSet(allocated[a]) :
           \A y \in BagToSet(allocated[a]) : Leq(y, x)

NoneOutstanding(a) == BagToSet(allocated[a]) = {} /\ origin[a] = LowerBound(a)

\* C1: between calls, every id in (lower bound, counter] is either held by a
\* caller or in the recycle pool, never both; the pool has no duplicates and
\* holds no id at or below the lower bound and none above the counter.
C1_AllocatedXorPooled ==
  \A a \in Allocators :
    Quiescent(a) =>
      /\ \A id \in Window(a) \cup Range(pool[a]) \cup BagToSet(allocated[a]) :
           InCounterRange(a, id) => (Outstanding(a, id) # (id \in Range(pool[a])))
      /\ Leq(origin[a], counter[a])
      /\ \A id \in Range(pool[a]) : InCounterRange(a, id) /\ ~Outstanding(a, id)
      /\ Len(pool[a]) = Cardinality(Range(pool[a]))

\* C1 witness: an allocator between calls with one id held and another pooled
C1_Witness ==
  \E a \in Allocators :
    /\ Quiescent(a)
    /\ Len(pool[a]) > 0
    /\ BagToSet(allocated[a]) # {}
    /\ last.op = "free" /\ last.a = a /\ last.outcome = "ok"

\* C2: under any interleaving of alloc and free calls of concurrent callers,
\* no id is held by two callers at once: alloc never returns an id that is
\* still outstanding.
C2_NoSharedId ==
  \A a \in Allocators :
    \A id \in Window(a) \cup BagToSet(allocated[a]) : Holders(a, id) <= 1

\* C2 witness: a caller has just been handed an id while another id of the
\* same allocator is outstanding
C2_Witness ==
  \E a \in Allocators :
    /\ last.op = "alloc" /\ last.a = a /\ last.outcome = "ok"
    /\ Cardinality(BagToSet(allocated[a])) >= 2

\* C3: between calls the pool never contains the counter (it is empty or its
\* maximum is below the counter); the counter is the largest id held by a
\* caller, or the initial value when none is held, so the largest held id
\* lies in [counter - pool size, counter].
C3_CounterTight ==
  \A a \in Allocators :
    Quiescent(a) =>
      /\ Len(pool[a]) = 0 \/ Less(MaxOf(pool[a]), counter[a])
      /\ IF NoneOutstanding(a) THEN counter[a] = LowerBound(a)
                               ELSE counter[a] = LargestAllocated(a)
      /\ Leq(LargestAllocated(a), counter[a])
      /\ Leq(counter[a], Plus(LargestAllocated(a), Len(pool[a])))

\* C3 witness: a free has just compacted the counter past an id pooled earlier
C3_Witness ==
  /\ last.op = "free" /\ last.outcome = "ok"
  /\ Len(last.prePool) > 0
  /\ Len(pool[last.a]) < Len(last.prePool)
  /\ Less(counter[last.a], Pred(last.preCounter))

\* C4: once every outstanding id has been freed, in any order, the counter
\* is back at its initial value and the pool is empty.
C4_AllFreedRestoresInitial ==
  \A a \in Allocators :
    (Quiescent(a) /\ NoneOutstanding(a)) =>
      (counter[a] = LowerBound(a) /\ pool[a] = <<>>)

\* C4 witness: the last outstanding id was freed after lower ids were freed
C4_Witness ==
  /\ last.op = "free" /\ last.outcome = "ok"
  /\ NoneOutstanding(last.a)
  /\ Len(last.prePool) > 0
  /\ last.arg = last.preCounter

\* C5: free(id) of an id that no caller holds (at or below the lower bound,
\* above the counter, or already freed) fails and leaves counter and pool
\* as they were.
C5_FreeOfUnallocatedFails ==
  (last.op = "free" /\ ~last.preHeld) =>
    /\ last.outcome = "InvalidArgument"
    /\ counter[last.a] = last.preCounter
    /\ pool[last.a] = last.prePool

\* C5 witness: a double free (the id is in the pool) has been rejected
C5_Witness ==
  /\ last.op = "free" /\ ~last.preHeld
  /\ last.arg \in Range(last.prePool)
  /\ last.outcome = "InvalidArgument"

\* C5 witness of the other two cases: never allocated, and the lower bound
C5_WitnessOutOfRange ==
  /\ last.op = "free" /\ ~last.preHeld
  /\ \/ Less(last.preCounter, last.arg)
     \/ last.arg = LowerBound(last.a)
  /\ last.outcome = "InvalidArgument"

\* C6: every id returned by alloc lies in the allocator's range, cookies in
\* [1, 2^64 - 1] and MPLS labels in [17, 2^20 - 1].
C6_AllocInRange ==
  (last.op = "alloc" /\ last.outcome = "ok") =>
    (Less(LowerBound(last.a), last.value) /\ Leq(last.value, RangeMax(last.a)))

\* C7: alloc with a non-empty pool succeeds (also with the counter at the
\* ceiling), returns an element of the pool, removes it and leaves the
\* counter alone; with an empty pool it increments the counter and returns
\* it, failing with Exhausted only when the counter has reached the ceiling.
C7_AllocPopsElseIncrements ==
  last.op = "alloc" =>
    IF Len(last.prePool) > 0
      THEN /\ last.outcome = "ok"
           /\ last.value \in Range(last.prePool)
           /\ Range(pool[last.a]) = Range(last.prePool) \ {last.value}
           /\ counter[last.a] = last.preCounter
      ELSE IF AllocExhausted(last.a, last.preCounter)
        THEN last.outcome = "Exhausted"
        ELSE /\ last.outcome = "ok"
             /\ counter[last.a] = Succ(last.preCounter)
             /\ last.value = counter[last.a]
             /\ pool[last.a] = <<>>

(***************************************************************************)
(* The id allocators as the engine calls them: one call, start to end,     *)
(* under the lock.  st is [counter, pool].                                 *)
(***************************************************************************)
AllocCall(a, st) ==
  IF AllocExhausted(a, st.counter)
    THEN [outcome |-> "Exhausted", value |-> NoLabel, counter |-> st.counter, pool |-> st.pool]
    ELSE IF Len(st.pool) > 0
      THEN [outcome |-> "ok", value |-> ListPopValue(st.pool),
            counter |-> st.counter, pool |-> ListPopRest(st.pool)]
      ELSE [outcome |-> "ok", value |-> Succ(st.counter),
            counter |-> Succ(st.counter), pool |-> st.pool]

alloc_mpls_label_id(st) == AllocCall("mpls", st)

(***************************************************************************)
(* Q-values and known shortest path lengths (globals.py).  A table is a    *)
(* function on the (key, target) cells written so far.  Q-values are kept  *)
(* in thousandths.                                                         *)
(***************************************************************************)
Cell(key, target) == <<key, target>>

\* the value get_q_value returns
get_q_value(q, key, target) ==
  IF Cell(key, target) \in DOMAIN q THEN q[Cell(key, target)] ELSE 0

\* the table get_q_value leaves behind: an absent cell is created with 0
q_after_get(q, key, target) ==
  IF Cell(key, target) \in DOMAIN q THEN q ELSE q @@ (Cell(key, target) :> 0)

\* set_q_value: writes the cell when the sector or the host is not in the table
set_q_value(q, key, target, value) ==
  IF Cell(key, target) \in DOMAIN q THEN q ELSE q @@ (Cell(key, target) :> value)

\* mutant: the table is read as if nothing had been written to it
get_known_shortest_path_None(k, key, target) == NoLength

\* the value get_known_shortest_path returns: <<n>> for the length n,
\* NoLength for None
get_known_shortest_path(k, key, target) ==
  IF Cell(key, target) \in DOMAIN k THEN k[Cell(key, target)] ELSE NoLength

\* the table get_known_shortest_path leaves behind: an absent cell becomes None
kspl_after_get(k, key, target) ==
  IF Cell(key, target) \in DOMAIN k THEN k ELSE k @@ (Cell(key, target) :> NoLength)

\* mutant: the table keeps the shorter of the two lengths
set_known_shortest_path_KeepsShorter(k, key, target, length) ==
  IF Cell(key, target) \in DOMAIN k /\ k[Cell(key, target)] # NoLength
       /\ k[Cell(key, target)][1] <= length
    THEN k
    ELSE (Cell(key, target) :> <<length>>) @@ k

set_known_shortest_path(k, key, target, length) ==
  IF Cell(key, target) \in DOMAIN k
    THEN [k EXCEPT ![Cell(key, target)] = <<length>>]
    ELSE k @@ (Cell(key, target) :> <<length>>)

\* q_alpha = 0.9, q_beta = 0.1, in tenths
Q_ALPHA_TENTHS == 9

Q_BETA_TENTHS == 1

\* old + q_alpha * (reward + q_beta * forward_value - old), in thousandths
calculate_new_qvalue(old_value, forward_value, reward) ==
  old_value
  + (Q_ALPHA_TENTHS * (10 * reward + Q_BETA_TENTHS * forward_value - 10 * old_value))
    \div 100

\* the updates of a sector whose peer answered with success: the KSPL of
\* the key is set to the peer's path_length + 1 (in both arms of the
\* comparison with the known one), read back, and the reward and the new
\* Q-value are computed from it
HopUpdate(q, k, key, ktarget, qtarget, path_length, forward_q_value, bandwidth_average) ==
  LET kspl1 == set_known_shortest_path(kspl_after_get(k, key, ktarget),
                                       key, ktarget, path_length + 1)
      known == get_known_shortest_path(kspl1, key, ktarget)
      reward == IF known = NoLength \/ known = <<0>> THEN 0
                ELSE (1000 * bandwidth_average) \div known[1]
      old_q_value == get_q_value(q, key, qtarget)
      new_q_value == calculate_new_qvalue(old_q_value, forward_q_value, reward)
  IN  [kspl |-> kspl1,
       \* assert kspl, "kspl cannot be Zero or None."
       asserted |-> known # NoLength /\ known # <<0>>,
       reward |-> reward, old_q_value |-> old_q_value, new_q_value |-> new_q_value,
       q |-> set_q_value(q_after_get(q, key, qtarget), key, qtarget, new_q_value)]

\* the two spellings of the target address used as table keys: the
\* IPv4Address object (target_ipv4) and the string (target_ipv4_str)
AddrKey(ip) == <<"IPv4Address", ip>>

StrKey(ip) == <<"str", ip>>

(***************************************************************************)
(* The implementation-task guard (__Implementation_Task).                  *)
(***************************************************************************)
\* a guard that forgets the token it hands out
TaskInitSet_Forgets(set, taskID) == set

\* __init__: the guard set afterwards
TaskInitSet(set, taskID) == set \cup {taskID}

\* a guard that never refuses
TaskInitRaises_Never(set, taskID) == FALSE

\* __init__ raises ImplementationTaskExists
TaskInitRaises(set, taskID) == taskID \in set

\* mutant: the id is stored in the object before the checks
TaskIdAfterRaise_Stored(taskID) == taskID

\* the __taskID of the object whose __init__ raised: the fields are set to
\* None first and assigned only after the three checks
TaskIdAfterRaise(taskID) == NoGps

\* a token that is never given back
TaskDelSet_Keeps(set, taskID) == set

\* __del__ of a token object whose __taskID is taskID (None when __init__ raised)
TaskDelSet(set, taskID) == IF taskID # NoGps THEN set \ {taskID} ELSE set

\* the class of the token activate_scenario registers for a scenario type
TaskClassOf(scenario_type) ==
  IF scenario_type = "ICMPv4" THEN <<"IPv4", "ICMP">> ELSE <<"IPv4", "*">>

(***************************************************************************)
(* The scenario registry.                                                  *)
(***************************************************************************)
is_scenario_active(reg, gpsid) == gpsid \in DOMAIN reg

\* mutant: an activation goes on although the scenario is implemented
AlreadyImplemented_Never(reg, gpsid) == FALSE

\* the check __activate_scenario makes before it takes the token
AlreadyImplemented(reg, gpsid) == is_scenario_active(reg, gpsid)

\* get_active_scenario(gpsid, True): the registry once the record is popped
pop_active_scenario(reg, gpsid) == [g \in DOMAIN reg \ {gpsid} |-> reg[g]]

set_active_scenario(reg, gpsid, handles, sectors) ==
  IF gpsid \in DOMAIN reg
    THEN [reg EXCEPT ![gpsid] = [handles |-> handles, sectors |-> sectors]]
    ELSE reg @@ (gpsid :> [handles |-> handles, sectors |-> sectors])

(***************************************************************************)
(* The topology model of one sector.                                       *)
(***************************************************************************)
\* sector.query_sectors_ids()
query_sectors_ids(c) == UNION {LinkEnds(l) \ {c} : l \in LinksAt(c)}

\* mutant: the requesting sector stays among the candidates
AdjacentSectors_All(c, requester) == query_sectors_ids(c)

\* adjacent_sectors_ids once the requesting sector is removed from it
AdjacentSectors(c, requester) == query_sectors_ids(c) \ {requester}

\* sector.query_edges_to_sector(sid): the links of c to sid, in topology order
query_edges_to_sector(c, sid) ==
  SelectSeq(LinkOrder, LAMBDA l : LinkEnds(l) = {c, sid})

Abs(n) == IF n < 0 THEN -n ELSE n

\* the number of (switch, port_in, port_out) triples between two switches
Hops(i, j) == Abs(i - j) + 1

\* construct_bidirectional_path / construct_unidirectional_path from the
\* boundary in_link to the boundary out_link (or to the host when out_link is
\* None): PathNotFound when a port on the way lacks the bandwidth, else the
\* path and the bandwidth table with the reservation made.
PathPorts(in_link, out_link) ==
  IF out_link = None THEN {in_link} ELSE {in_link, out_link}

PathFound(dn, bw, in_link, out_link, amount) ==
  \A l \in PathPorts(in_link, out_link) : l \notin dn /\ bw[l] >= amount

Reserve(bw, in_link, out_link, amount) ==
  [l \in DOMAIN bw |->
     IF l \in PathPorts(in_link, out_link) THEN bw[l] - amount ELSE bw[l]]

\* a Path: its length, the links at its two ends, what it reserved, and the
\* mean free bandwidth of its ports after the reservation
MakePath(c, bw, in_link, out_link, amount) ==
  LET after == Reserve(bw, in_link, out_link, amount)
      ports == PathPorts(in_link, out_link)
      total == IF out_link = None THEN after[in_link]
               ELSE after[in_link] + after[out_link]
  IN  [length |-> IF out_link = None THEN Hops(SwitchOf(c, in_link), HostSwitchAt(c))
                  ELSE Hops(SwitchOf(c, in_link), SwitchOf(c, out_link)),
       entry |-> in_link, exit |-> out_link, allocated |-> amount,
       remaining_bandwidth_average |-> total \div Cardinality(ports)]

NoPath == [length |-> 0, entry |-> None, exit |-> None, allocated |-> 0,
           remaining_bandwidth_average |-> 0]

(***************************************************************************)
(* Bounds of the engine runs.                                              *)
(***************************************************************************)
\* activate_scenario invocations in one run
MaxCalls == 4

\* requests the source sector sends
MaxInject == 2

\* peer connections and peer calls that fail in one run
MaxFaults == 1

\* terminate_scenario requests the source sector sends
MaxTerminate == 2

\* requests of either kind the source sector sends
MaxSourceRequests == MaxInject + 1

\* a reply: q_value counts when has_q (the key is in the dict)
NoReply == [success |-> FALSE, reason |-> "none", has_q |-> FALSE, q_value |-> 0,
            path_length |-> 0]

\* An invocation is named by the request that started it: <<n>> for the
\* n-th request of the source sector, the name of the calling invocation
\* followed by the number of its attempt for a peer RPC.
NoRpc == <<>>

CallIds == DOMAIN calls

Caller(rpc) == SubSeq(rpc, 1, Len(rpc) - 1)

AttemptOf(rpc) == rpc[Len(rpc)]

\* what an invocation did about the last failure of a selected peer: the
\* Q-value the update computed and the one get_q_value reads back after it,
\* the candidates left besides the failed one, and whether the run went on
NoPenalty == [made |-> FALSE, old |-> 0, forward |-> 0, expected |-> 0,
              stored |-> 0, left |-> 0, dropped |-> FALSE, reply |-> NoReply]

IdleCall ==
  [state |-> "unused", func |-> "activate_scenario",
   ctrl |-> None, gpsid |-> NoGps, requester |-> None,
   hash |-> None, upLabel |-> NoLabel, rpc |-> NoRpc, branch |-> None,
   links |-> <<>>, sectors |-> {}, sel |-> None, peer |-> None, path |-> NoPath,
   label |-> NoLabel, token |-> NoGps, attempt |-> 0, sent |-> FALSE,
   reply |-> NoReply,
   \* what the invocation met at its entry (the invocations in flight for its
   \* gpsid at its controller, the scenario registered or not) and left at
   \* its return (the scenario registered or not)
   inflight |-> {}, active |-> FALSE, registered |-> FALSE,
   \* the invocation returned without a suspension and left the controller
   \* as it found it (quiet), its Q and KSPL tables as it found them
   quiet |-> FALSE, sameTables |-> FALSE,
   \* terminate_scenario: the activations of the gpsid that had been started
   \* when it was called, and the services it took out of the tables
   known |-> {}, removed |-> {},
   \* terminate_scenario: the adjacent sectors of the record it popped, and
   \* the sectors it sent its RPC to, in the order of the calls
   adjacents |-> {}, called |-> <<>>,
   penalised |-> NoPenalty,
   \* the candidates that left the list because no path led to them, and the
   \* candidates still in the list when PathNotFound ended the invocation
   skipped |-> {}, unexplored |-> 0,
   \* the Q-value the update after the peer's success started from, the
   \* one it computed and the one get_q_value reads back after it
   old_q |-> 0, new_q |-> 0, stored_q |-> 0]

(***************************************************************************)
(* Initial state of the federation: nothing active, every table empty,     *)
(* every port up with its full capacity or down.                           *)
(***************************************************************************)
EngineInit ==
  /\ tasks = [c \in Controllers |-> [cl \in TaskClasses |-> {}]]
  /\ scenarios = [c \in Controllers |-> <<>>]
  /\ qvalues = [c \in Controllers |-> <<>>]
  /\ kspl = [c \in Controllers |-> <<>>]
  /\ down \in {{}, {"BT"}, {"AB1", "AC"}}
  /\ bandwidth = [c \in Controllers |-> [l \in LinksAt(c) |-> PortCapacity]]
  /\ services = [c \in Controllers |-> {}]
  /\ labels = [c \in Controllers |-> [counter |-> MPLS_LABEL_ID_INITIAL, pool |-> <<>>]]
  /\ net = {}
  /\ calls = <<>>
  /\ injected = 0
  /\ faults \in {0, MaxFaults}
  /\ terminations = 0

(***************************************************************************)
(* activate_scenario: the pure logic between two suspension points.  x is  *)
(* the state of the controller the handler runs at.                        *)
(***************************************************************************)
Ctx(c) == [tasks |-> tasks[c], scenarios |-> scenarios[c], q |-> qvalues[c],
           kspl |-> kspl[c], bw |-> bandwidth[c], services |-> services[c],
           labels |-> labels[c]]

\* the other end of a link of c
PeerOn(c, l) == CHOOSE n \in LinkEnds(l) : n # c

\* get_q_value called on every candidate (the filter of links_never_used)
RECURSIVE TouchAll(_, _, _)
TouchAll(q, keys, target) ==
  IF Len(keys) = 0 THEN q
  ELSE TouchAll(q_after_get(q, Head(keys), target), Tail(keys), target)

\* links_never_used[0] if there is one, else max(possible_links, key=Q):
\* the first candidate with the largest Q-value
\* mutant: the never-used candidates get no precedence
SelectLink_Max(q, candidates, target) ==
  candidates[CHOOSE i \in DOMAIN candidates :
               \A j \in DOMAIN candidates :
                 get_q_value(q, candidates[j], target)
                   <= get_q_value(q, candidates[i], target)]

SelectLink(q, candidates, target) ==
  LET never == SelectSeq(candidates, LAMBDA l : get_q_value(q, l, target) = 0)
      best == CHOOSE i \in DOMAIN candidates :
                /\ \A j \in DOMAIN candidates :
                     get_q_value(q, candidates[j], target)
                       <= get_q_value(q, candidates[i], target)
                /\ \A j \in 1..(i-1) :
                     get_q_value(q, candidates[j], target)
                       < get_q_value(q, candidates[i], target)
  IN  IF Len(never) > 0 THEN never[1] ELSE candidates[best]

\* the outcome of the code that runs up to the next peer RPC
Outcome(kind, reason, x, links, sectors, sel, peer, path, label) ==
  [kind |-> kind, reason |-> reason, x |-> x, links |-> links,
   sectors |-> sectors, sel |-> sel, peer |-> peer, path |-> path,
   label |-> label]

\* the path is built: allocate the label for the tunnel, then call the peer
WithLabel(x, links, sectors, sel, peer, path) ==
  LET al == alloc_mpls_label_id(x.labels) IN
  IF al.outcome # "ok"
    THEN Outcome("raise", "Exception", x, links, sectors, sel, peer, path, NoLabel)
    ELSE Outcome("rpc", "",
                 [x EXCEPT !.labels = [counter |-> al.counter, pool |-> al.pool]],
                 links, sectors, sel, peer, path, al.value)

\* ICMPv4, target sector adjacent (the "while possible_links" loop): select
\* a link, build the path to it; on PathNotFound drop the link and retry,
\* re-raising when none is left
RECURSIVE IcmpAdjacent(_, _, _, _, _, _)
IcmpAdjacent(c, dn, x, links, in_link, target) ==
  IF Len(links) = 0
    THEN \* the loop is skipped, bidirectional_path is (), the assert fails
         Outcome("raise", "Exception", x, links, {}, None, None, NoPath, NoLabel)
    ELSE
      LET q1 == TouchAll(x.q, links, AddrKey(target))
          sel == SelectLink(q1, links, AddrKey(target))
          x1 == [x EXCEPT !.q = q1]
          rest == ListRemove(links, sel)
      IN  IF PathFound(dn, x.bw, in_link, sel, IcmpBandwidth)
            THEN WithLabel([x1 EXCEPT !.bw = Reserve(x.bw, in_link, sel, IcmpBandwidth)],
                           links, {}, sel, OwnerOf(target),
                           MakePath(c, x.bw, in_link, sel, IcmpBandwidth))
            ELSE IF Len(rest) = 0
              THEN Outcome("raise", "PathNotFound", x1, rest, {}, sel, None, NoPath, NoLabel)
              ELSE IcmpAdjacent(c, dn, x1, rest, in_link, target)

\* ICMPv4, exploration (the second "while possible_links" loop): the selected
\* link leaves the candidates before the path is built; PathNotFound moves
\* on to the next candidate and is re-raised when none is left
RECURSIVE IcmpExplore(_, _, _, _, _, _)
IcmpExplore(c, dn, x, links, in_link, target) ==
  IF Len(links) = 0
    THEN Outcome("exhausted", "", x, links, {}, None, None, NoPath, NoLabel)
    ELSE
      LET q1 == TouchAll(x.q, links, AddrKey(target))
          sel == SelectLink(q1, links, AddrKey(target))
          x1 == [x EXCEPT !.q = q1]
          rest == ListRemove(links, sel)
      IN  IF PathFound(dn, x.bw, in_link, sel, IcmpBandwidth)
            THEN WithLabel([x1 EXCEPT !.bw = Reserve(x.bw, in_link, sel, IcmpBandwidth)],
                           rest, {}, sel, PeerOn(c, sel),
                           MakePath(c, x.bw, in_link, sel, IcmpBandwidth))
            ELSE IF Len(rest) = 0
              THEN Outcome("raise", "PathNotFound", x1, rest, {}, sel, None, NoPath, NoLabel)
              ELSE IcmpExplore(c, dn, x1, rest, in_link, target)

\* construct_unidirectional_path to a sector: the links to it that are up
UniExits(c, dn, sid) ==
  SelectSeq(query_edges_to_sector(c, sid), LAMBDA l : l \notin dn)

\* of those, the shortest by hops, then the one with most free bandwidth
UniExit(c, dn, bw, in_link, sid) ==
  LET exits == UniExits(c, dn, sid)
      Better(a, b) ==
        \/ Hops(SwitchOf(c, in_link), SwitchOf(c, a))
             < Hops(SwitchOf(c, in_link), SwitchOf(c, b))
        \/ /\ Hops(SwitchOf(c, in_link), SwitchOf(c, a))
                = Hops(SwitchOf(c, in_link), SwitchOf(c, b))
           /\ bw[a] > bw[b]
      i == CHOOSE j \in DOMAIN exits :
             /\ \A k \in DOMAIN exits : ~Better(exits[k], exits[j])
             /\ \A k \in 1..(j-1) : Better(exits[j], exits[k])
  IN  exits[i]

\* generic IPv4: the unidirectional path to sector sid, the label, the call
Ipv4PathTo(c, dn, x, sectors, in_link, sid) ==
  IF in_link \in dn \/ Len(UniExits(c, dn, sid)) = 0
    THEN Outcome("raise", "PathNotFound", x, <<>>, sectors, sid, None, NoPath, NoLabel)
    ELSE LET exit == UniExit(c, dn, x.bw, in_link, sid) IN
         WithLabel(x, <<>>, sectors, sid, sid, MakePath(c, x.bw, in_link, exit, 0))

\* generic IPv4, exploration: the sectors the selection can return.  The
\* candidates are a set, so "the first never used" and "the maximum" are any
\* never-used sector and any sector with the largest Q-value
Ipv4Selectable(q, sectors, target) ==
  LET never == {n \in sectors : get_q_value(q, n, AddrKey(target)) = 0} IN
  IF never # {} THEN never
  ELSE {n \in sectors : \A o \in sectors :
          get_q_value(q, o, AddrKey(target)) <= get_q_value(q, n, AddrKey(target))}

RECURSIVE TouchSet(_, _, _)
TouchSet(q, keys, target) ==
  IF keys = {} THEN q
  ELSE LET k == CHOOSE k \in keys : TRUE
       IN  TouchSet(q_after_get(q, k, target), keys \ {k}, target)

\* one pass of the "while len(adjacent_sectors_ids)" loop with pick selected
Ipv4Explore(c, dn, x, sectors, in_link, target, pick) ==
  IF sectors = {}
    THEN Outcome("exhausted", "", x, <<>>, {}, None, None, NoPath, NoLabel)
    ELSE Ipv4PathTo(c, dn, [x EXCEPT !.q = TouchSet(x.q, sectors, AddrKey(target))],
                    sectors \ {pick}, in_link, pick)

\* the candidates a pass of a forwarding branch chooses from
Picks(branch, x, sectors, target) ==
  IF branch = "ipv4_explore" /\ sectors # {}
    THEN Ipv4Selectable(x.q, sectors, target)
    ELSE {None}

\* the code of a forwarding branch from the top of its loop to the peer RPC
Attempt(c, dn, branch, x, links, sectors, in_link, target, pick) ==
  CASE branch = "icmp_adjacent" -> IcmpAdjacent(c, dn, x, links, in_link, target)
    [] branch = "icmp_explore"  -> IcmpExplore(c, dn, x, links, in_link, target)
    [] branch = "ipv4_adjacent" -> Ipv4PathTo(c, dn, x, {}, in_link, OwnerOf(target))
    [] branch = "ipv4_explore"  -> Ipv4Explore(c, dn, x, sectors, in_link, target, pick)

(***************************************************************************)
(* Replies and messages.                                                   *)
(***************************************************************************)
Failure(reason) ==
  [success |-> FALSE, reason |-> reason, has_q |-> FALSE, q_value |-> 0,
   path_length |-> 0]

Success(q_value, path_length) ==
  [success |-> TRUE, reason |-> "", has_q |-> TRUE, q_value |-> q_value,
   path_length |-> path_length]

Request(to, from, gpsid, label, hash, rpc) ==
  [kind |-> "request", func |-> "activate_scenario",
   to |-> to, from |-> from, gpsid |-> gpsid,
   label |-> label, hash |-> hash, rpc |-> rpc, result |-> NoReply]

Response(rpc, result) ==
  [kind |-> "response", func |-> None, to |-> None, from |-> None, gpsid |-> NoGps,
   label |-> NoLabel, hash |-> None, rpc |-> rpc, result |-> result]

\* the request did not come from a modelled invocation
FromSource(rpc) == Len(rpc) = 1

\* the orders in which a set of sectors can be iterated
SectorOrders(set) ==
  {o \in UNION {[1..n -> set] : n \in {Cardinality(set)}} :
     \A i, j \in DOMAIN o : i # j => o[i] # o[j]}

\* possible_links of the exploration branch: the edges to every remaining
\* adjacent sector, sector by sector
RECURSIVE LinksOver(_, _)
LinksOver(c, order) ==
  IF Len(order) = 0 THEN <<>>
  ELSE query_edges_to_sector(c, Head(order)) \o LinksOver(c, Tail(order))

\* the service object an installer returns and keeps in mapped_services
Service(c, k, path, label, upLabel) ==
  [handle |-> <<c, k>>, path |-> path, label |-> label, upLabel |-> upLabel]

\* what a run of the handler ends in: the invocation has returned its reply,
\* or it is suspended in a peer RPC
Returned(x, rec, reply) ==
  [kind |-> "return",
   x |-> IF rec.token = NoGps THEN x
         ELSE [x EXCEPT !.tasks[TaskClassOf(rec.gpsid[4])] =
                          TaskDelSet(@, rec.token)],
   \* the frame is gone: what stays of the invocation is what it answered
   rec |-> [IdleCall EXCEPT !.state = "done", !.func = rec.func,
                            !.known = rec.known, !.removed = rec.removed,
                            !.adjacents = rec.adjacents, !.called = rec.called,
                            !.penalised = rec.penalised,
                            !.skipped = rec.skipped, !.unexplored = rec.unexplored,
                            !.old_q = rec.old_q, !.new_q = rec.new_q,
                            !.stored_q = rec.stored_q,
                            !.ctrl = rec.ctrl, !.gpsid = rec.gpsid,
                            !.requester = rec.requester, !.rpc = rec.rpc,
                            !.branch = rec.branch, !.attempt = rec.attempt,
                            !.reply = reply, !.inflight = rec.inflight,
                            !.active = rec.active,
                            !.registered = rec.gpsid \in DOMAIN x.scenarios]]

\* mutant: the scenario is registered before the peer is called
Suspended_Registered(x, rec) ==
  [kind |-> "suspend",
   x |-> [x EXCEPT !.scenarios = set_active_scenario(@, rec.gpsid,
                                                     <<<<rec.ctrl, rec.rpc>>>>,
                                                     <<rec.requester>>)],
   rec |-> [rec EXCEPT !.state = "waiting"]]

Suspended(x, rec) == [kind |-> "suspend", x |-> x, rec |-> [rec EXCEPT !.state = "waiting"]]

\* mutant: the end of the loop is reported as a path of no length
ExhaustedReply_Success == Success(0, 0)

\* the reply after the exploration loop: "Alternative adjacent sectors
\* options is exhausted."
ExhaustedReply == Failure("alternatives exhausted")

\* from the outcome of a pass of a forwarding branch to the end of the run
Proceed(rec, out) ==
  LET gone == (Range(rec.links) \ Range(out.links))
                \ (IF out.kind = "rpc" THEN {out.sel} ELSE {})
      seen == [rec EXCEPT !.skipped = @ \cup gone]
  IN
  CASE out.kind = "rpc" ->
         Suspended(out.x, [seen EXCEPT !.links = out.links, !.sectors = out.sectors,
                                       !.sel = out.sel, !.peer = out.peer,
                                       !.path = out.path, !.label = out.label,
                                       !.attempt = @ + 1])
    [] out.kind = "raise" ->
         Returned(out.x,
                  [seen EXCEPT !.unexplored =
                     IF out.reason = "PathNotFound"
                       THEN Cardinality(Range(out.links) \cup out.sectors) ELSE 0],
                  Failure(out.reason))
    [] out.kind = "exhausted" -> Returned(out.x, seen, ExhaustedReply)

\* the forwarding branch of a request of scenario_type for target, given the
\* adjacent sectors left after removing the requester
BranchOf(scenario_type, target, adjacents) ==
  IF scenario_type = "ICMPv4"
    THEN IF OwnerOf(target) \in adjacents THEN "icmp_adjacent" ELSE "icmp_explore"
    ELSE IF OwnerOf(target) \in adjacents THEN "ipv4_adjacent" ELSE "ipv4_explore"

\* mutant: a search is never taken for one that has come back
LoopDetected_Never(g, c) == FALSE

\* source_controller_id == this_controller_id
LoopDetected(g, c) == g[1] = c

\* the invocations of activate_scenario for g suspended at controller c
InFlight(c, g) ==
  {j \in DOMAIN calls : calls[j].state = "waiting" /\ calls[j].ctrl = c
                         /\ calls[j].gpsid = g
                         /\ calls[j].func = "activate_scenario"}

\* mutant: the target sector reports the length of its path as it is
TargetReply_FullLength(path) == Success(1000, path.length)

\* the reply of the target sector: q_value 1, path_length len(path) - 1
TargetReply(path) == Success(1000, path.length - 1)

\* mutant: every scenario type is taken for a generic IPv4 one
ValidScenarioType_Any(scenario_type) == TRUE

\* the scenario types __activate_scenario has a branch for
ValidScenarioType(scenario_type) == scenario_type \in {"ICMPv4", "IPv4"}

\* mutant: a local label for every local path
NeedsLocalLabel_Always(path) == path.length >= 1

\* the target sector allocates a local label for a path of three triples or
\* more
NeedsLocalLabel(path) == path.length >= 3

\* __activate_scenario from its entry to the first peer RPC or to its return
Activate(c, dn, k, m, x, order, pick) ==
  LET g == m.gpsid
      target == g[3]
      scenario_type == g[4]
      cls == TaskClassOf(scenario_type)
      rec == [IdleCall EXCEPT !.ctrl = c, !.gpsid = g, !.requester = m.from,
                              !.hash = m.hash, !.upLabel = m.label, !.rpc = m.rpc,
                              !.inflight = InFlight(c, g),
                              !.active = g \in DOMAIN x.scenarios]
      held == [rec EXCEPT !.token = g]
      x1 == [x EXCEPT !.tasks[cls] = TaskInitSet(@, g)]
      amount == IF scenario_type = "ICMPv4" THEN IcmpBandwidth ELSE 0
      path == MakePath(c, x1.bw, m.hash, None, amount)
      al == alloc_mpls_label_id(x1.labels)
      label == IF NeedsLocalLabel(path) THEN al.value ELSE NoLabel
      x2 == [x1 EXCEPT !.bw = Reserve(@, m.hash, None, amount),
                       !.labels = IF NeedsLocalLabel(path)
                                    THEN [counter |-> al.counter, pool |-> al.pool]
                                    ELSE @]
      x3 == [x2 EXCEPT !.services = @ \cup {Service(c, k, path, label, m.label)},
                       !.scenarios = set_active_scenario(@, g, <<<<c, k>>>>, <<m.from>>)]
      adjacents == AdjacentSectors(c, m.from)
      branch == BranchOf(scenario_type, target, adjacents)
  IN
  IF LoopDetected(g, c)
    THEN Returned(x, rec, Failure("loop detected"))
  ELSE IF AlreadyImplemented(x.scenarios, g)
    THEN Returned(x, rec, Failure("already implemented"))
  ELSE IF ~ValidScenarioType(scenario_type)
    THEN Returned(x, rec, Failure("invalid scenario type"))
  ELSE IF TaskInitRaises(x.tasks[cls], g)
    THEN \* the rejected object is destroyed when the handler returns
         Returned(x, [rec EXCEPT !.token = TaskIdAfterRaise(g)], Failure("TaskExists"))
  ELSE IF OwnerOf(target) = c
    THEN IF ~PathFound(dn, x1.bw, m.hash, None, amount)
           THEN Returned(x1, held, Failure("PathNotFound"))
         ELSE IF NeedsLocalLabel(path) /\ al.outcome # "ok"
           THEN Returned([x1 EXCEPT !.bw = Reserve(@, m.hash, None, amount)],
                         held, Failure("Exception"))
         ELSE Returned(x3, held, TargetReply(path))
  ELSE IF m.from \notin query_sectors_ids(c)
    THEN \* adjacent_sectors_ids.remove raises KeyError
         Returned(x1, held, Failure("Exception"))
  ELSE IF adjacents = {}
    THEN Returned(x1, held, Failure("No available sectors to explore"))
  ELSE LET links == IF branch = "icmp_adjacent"
                      THEN query_edges_to_sector(c, OwnerOf(target))
                      ELSE IF branch = "icmp_explore" THEN LinksOver(c, order)
                      ELSE <<>>
       IN  Proceed([held EXCEPT !.branch = branch, !.links = links],
                   Attempt(c, dn, branch, x1, links,
                           IF branch = "ipv4_explore" THEN adjacents ELSE {},
                           m.hash, target, pick))

\* the table key of the Q update after a peer reply: the chosen edge in the
\* ICMPv4 branches (the target sector on a failure of the target-adjacent
\* one), the sector in the generic IPv4 branches
UpdateKey(rec, success) ==
  CASE rec.branch = "icmp_adjacent" ->
         IF success THEN rec.sel ELSE OwnerOf(rec.gpsid[3])
    [] rec.branch = "icmp_explore"  -> rec.sel
    [] rec.branch = "ipv4_adjacent" -> OwnerOf(rec.gpsid[3])
    [] rec.branch = "ipv4_explore"  -> rec.sel

\* the spelling of the target in the Q update: target_ipv4 in the ICMPv4
\* branches, target_ipv4_str in the generic IPv4 ones
UpdateTarget(rec) ==
  IF rec.branch \in {"icmp_adjacent", "icmp_explore"}
    THEN AddrKey(rec.gpsid[3]) ELSE StrKey(rec.gpsid[3])

\* mutant: the sector registers the scenario and answers that it failed
ForwardReply_Failure(new_q_value, path, res) == Failure("Exception")

\* mutant: the hop shared with the peer is counted twice
ForwardReply_NoOverlap(new_q_value, path, res) ==
  Success(new_q_value, path.length + res.path_length)

\* the reply of a sector whose peer succeeded
ForwardReply(new_q_value, path, res) ==
  Success(new_q_value, path.length + res.path_length - 1)

\* __activate_scenario from the return of the peer RPC (res is the peer's
\* reply, or the failure made of the exception the call raised) to the next
\* peer RPC or to its return
Resume(c, dn, k, rec, x, res, pick) ==
  LET target == rec.gpsid[3]
      forward_q_value == IF res.has_q THEN res.q_value ELSE 0
      key == UpdateKey(rec, res.success)
      \* on success
      hop == HopUpdate(x.q, x.kspl, key, AddrKey(target), UpdateTarget(rec),
                       res.path_length, forward_q_value,
                       rec.path.remaining_bandwidth_average)
      old_q_value == hop.old_q_value
      new_q_value == hop.new_q_value
      xs == [x EXCEPT !.kspl = hop.kspl, !.q = hop.q,
                      !.services = @ \cup {Service(c, k, rec.path, rec.label, rec.upLabel)},
                      !.scenarios = set_active_scenario(@, rec.gpsid, <<<<c, k>>>>,
                                                        <<rec.requester, rec.peer>>)]
      \* on failure
      penalty == calculate_new_qvalue(old_q_value, forward_q_value, -1000)
      xf == [x EXCEPT !.q = set_q_value(q_after_get(x.q, key, UpdateTarget(rec)),
                                        key, UpdateTarget(rec), penalty)]
  IN
  IF res.success
    THEN IF ~hop.asserted
           THEN Returned([x EXCEPT !.kspl = hop.kspl], rec, Failure("Exception"))
           ELSE Returned(xs, [rec EXCEPT !.old_q = old_q_value,
                                         !.new_q = new_q_value,
                                         !.stored_q = get_q_value(xs.q, key,
                                                                  UpdateTarget(rec))],
                         ForwardReply(new_q_value, rec.path, res))
    ELSE LET left == (Range(rec.links) \cup rec.sectors) \ {rec.sel}
             r == IF rec.branch \in {"icmp_adjacent", "ipv4_adjacent"}
                    THEN Returned(xf, rec, Failure("No available sectors to explore"))
                    ELSE Proceed(rec, Attempt(c, dn, rec.branch, xf, rec.links,
                                              rec.sectors, rec.hash, target, pick))
         IN  [r EXCEPT !.rec.penalised =
                [made |-> TRUE,
                 old |-> old_q_value, forward |-> forward_q_value,
                 expected |-> penalty,
                 stored |-> get_q_value(xf.q, key, UpdateTarget(rec)),
                 left |-> Cardinality(left),
                 dropped |-> rec.branch \in {"icmp_explore", "ipv4_explore"}
                               => rec.sel \notin Range(rec.links) \cup rec.sectors,
                 reply |-> IF r.kind = "return" THEN r.rec.reply ELSE NoReply]]

(***************************************************************************)
(* The actions of the federation.                                          *)
(***************************************************************************)
\* the state of controller c becomes x
Commit(c, x) ==
  /\ tasks' = [tasks EXCEPT ![c] = x.tasks]
  /\ scenarios' = [scenarios EXCEPT ![c] = x.scenarios]
  /\ qvalues' = [qvalues EXCEPT ![c] = x.q]
  /\ kspl' = [kspl EXCEPT ![c] = x.kspl]
  /\ bandwidth' = [bandwidth EXCEPT ![c] = x.bw]
  /\ services' = [services EXCEPT ![c] = x.services]
  /\ labels' = [labels EXCEPT ![c] = x.labels]

\* mutant: no reply reaches the sector that called
Awaited_Never(rpc) == FALSE

\* the caller of rpc is still in its receive
Awaited(rpc) ==
  /\ calls[Caller(rpc)].state = "waiting" /\ calls[Caller(rpc)].sent
  /\ calls[Caller(rpc)].attempt = AttemptOf(rpc)

\* the messages a run of the handler sends: its reply when it has returned
\* to a peer that still listens (the reply to a closed socket is lost), the
\* request of the peer RPC when the connection was made
Sent(c, k, r, connected) ==
  IF r.kind = "return"
    THEN IF FromSource(r.rec.rpc) \/ ~Awaited(r.rec.rpc)
           THEN {} ELSE {Response(r.rec.rpc, r.rec.reply)}
    ELSE IF connected
      THEN {[Request(r.rec.peer, c, r.rec.gpsid, r.rec.label, r.rec.path.exit,
                     Append(k, r.rec.attempt)) EXCEPT !.func = r.rec.func]}
      ELSE {}

\* the end of a run of the handler of invocation k at controller c; raised
\* tells that the run started with an exception of the peer call
Finish(c, k, r, connected, consumed, raised) ==
  /\ Commit(c, r.x)
  /\ faults' = faults + (IF raised THEN 1 ELSE 0)
                       + (IF r.kind = "suspend" /\ ~connected THEN 1 ELSE 0)
  /\ faults' <= MaxFaults
  /\ UNCHANGED allocVars
  /\ calls' = (k :> [r.rec EXCEPT
                        !.sent = connected /\ r.kind = "suspend",
                        !.quiet = k \notin DOMAIN calls /\ r.kind = "return"
                                  /\ r.x = Ctx(c),
                        !.sameTables = k \notin DOMAIN calls /\ r.kind = "return"
                                       /\ r.x.q = qvalues[c] /\ r.x.kspl = kspl[c]])
                 @@ calls
  /\ net' = (net \ consumed) \cup Sent(c, k, r, connected)

\* a run that ends in a peer RPC makes the connection to the peer or fails to
Run(c, k, r, consumed, raised) ==
  \E end \in {r} :
    \E connected \in (IF end.kind = "suspend" THEN BOOLEAN ELSE {TRUE}) :
      Finish(c, k, end, connected, consumed, raised)

\* the source sector sends activate_scenario to A; the server of A accepts
\* its connections one at a time
Inject(g) ==
  /\ injected - terminations < MaxInject
  /\ injected < MaxSourceRequests
  /\ \A m \in net : ~(m.kind = "request" /\ FromSource(m.rpc))
  /\ injected' = injected + 1
  /\ net' = net \cup {Request("A", SourceSector, g, SourceLabel, "SA",
                              <<injected + 1>>)}
  /\ UNCHANGED <<tasks, scenarios, qvalues, kspl, bandwidth, down, services,
                 labels, calls, faults, terminations, wire>>
  /\ UNCHANGED allocVars

\* the RPC server of m.to dispatches request m to __activate_scenario, which
\* runs to its first peer RPC or to its return
Dispatch_activate_scenario(m) ==
  /\ m \in net /\ m.kind = "request" /\ m.func = "activate_scenario"
  /\ m.to \in Controllers
  /\ LET c == m.to
         adjacents == AdjacentSectors(c, m.from)
     IN  \E order \in SectorOrders(adjacents) :
         \E pick \in Picks(BranchOf(m.gpsid[4], m.gpsid[3], adjacents), Ctx(c),
                           adjacents, m.gpsid[3]) :
           Run(c, m.rpc, Activate(c, down, m.rpc, m, Ctx(c), order, pick), {m}, FALSE)
  /\ UNCHANGED <<down, injected, terminations, wire>>

\* the same, for at most MaxCalls invocations in a behaviour
Serve(m) ==
  /\ Cardinality({k \in CallIds : calls[k].func = "activate_scenario"}) < MaxCalls
  /\ Dispatch_activate_scenario(m)

\* the peer RPC of the suspended invocation k returns the reply m
RpcReply(k, m) ==
  /\ calls[k].func = "activate_scenario"
  /\ calls[k].state = "waiting" /\ calls[k].sent
  /\ m \in net /\ m.kind = "response" /\ m.rpc = Append(k, calls[k].attempt)
  /\ LET c == calls[k].ctrl IN
       \E pick \in Picks(calls[k].branch, Ctx(c), calls[k].sectors, calls[k].gpsid[3]) :
         Run(c, k, Resume(c, down, k, calls[k], Ctx(c), m.result, pick), {m}, FALSE)
  /\ UNCHANGED <<down, injected, terminations, wire>>

\* the peer RPC of the suspended invocation k raises (receive timeout,
\* socket error): the exception becomes a failed reply, and a reply that
\* arrives is lost with the closed socket
RpcRaise(k) ==
  /\ calls[k].func = "activate_scenario"
  /\ calls[k].state = "waiting" /\ calls[k].sent
  /\ LET c == calls[k].ctrl IN
       \E pick \in Picks(calls[k].branch, Ctx(c), calls[k].sectors, calls[k].gpsid[3]) :
         Run(c, k, Resume(c, down, k, calls[k], Ctx(c), Failure("rpc error"), pick),
             {m \in net : m.kind = "response" /\ m.rpc = Append(k, calls[k].attempt)},
             TRUE)
  /\ UNCHANGED <<down, injected, terminations, wire>>

\* get_controller_proxy of the suspended invocation k raises (no connection):
\* in the target-adjacent branches the call is made outside the inner try
\* and the exception ends the activation; in the exploration branches it
\* becomes a failed reply
ConnectRaise(k) ==
  /\ calls[k].func = "activate_scenario"
  /\ calls[k].state = "waiting" /\ ~calls[k].sent
  /\ LET c == calls[k].ctrl IN
       IF calls[k].branch \in {"icmp_adjacent", "ipv4_adjacent"}
         THEN Finish(c, k, Returned(Ctx(c), calls[k], Failure("Exception")), TRUE, {}, FALSE)
         ELSE \E pick \in Picks(calls[k].branch, Ctx(c), calls[k].sectors,
                                calls[k].gpsid[3]) :
                Run(c, k, Resume(c, down, k, calls[k], Ctx(c),
                                 Failure("connection failed"), pick),
                    {}, FALSE)
  /\ UNCHANGED <<down, injected, terminations, wire>>

(***************************************************************************)
(* __terminate_scenario.                                                   *)
(***************************************************************************)
TerminateOk ==
  [success |-> TRUE, reason |-> "", has_q |-> FALSE, q_value |-> 0,
   path_length |-> 0]

\* the answer (1, "Internal Error. Cannot process request.") the server
\* gives when the handler raised, which the proxy of the caller raises as
\* UnexpectedResponse
InternalError == Failure("Internal Error")

\* mutant: the termination of a path that is not registered is acknowledged
NotActiveReply_Ok == TerminateOk

\* "Path with ID ... registration does not exist."
NotActiveReply == Failure("not active")

\* the loop over the adjacent sectors of the popped record: the next sector
\* of the set is called, or the set is spent and the handler returns success
TerminatePeers(x, rec, remaining, sid) ==
  IF remaining = {}
    THEN Returned(x, rec, TerminateOk)
    ELSE Suspended(x, [rec EXCEPT !.peer = sid, !.sectors = remaining \ {sid},
                                  !.called = Append(@, sid),
                                  !.attempt = @ + 1])

\* mutant: every service of the tables is taken for one of the scenario
LocalScenariosToKill_All(table, handles) == table

\* local_scenarios_to_kill: the entries of mapped_services whose service
\* is one of the handles of the record
LocalScenariosToKill(table, handles) == {s \in table : s.handle \in handles}

\* the sectors the loop can take next
NextSectors(remaining) == IF remaining = {} THEN {None} ELSE remaining

\* __terminate_scenario from its entry to its first peer RPC or its return
Terminate(c, k, m, x, sid) ==
  LET g == m.gpsid
      rec == [IdleCall EXCEPT !.state = "running", !.func = "terminate_scenario",
                              !.ctrl = c, !.gpsid = g, !.requester = m.from,
                              !.rpc = m.rpc,
                              !.active = g \in DOMAIN x.scenarios,
                              !.inflight = InFlight(c, g),
                              !.known = {j \in CallIds :
                                           /\ calls[j].func = "activate_scenario"
                                           /\ calls[j].gpsid = g}]
  IN  IF ~is_scenario_active(x.scenarios, g)
        THEN Returned(x, rec, NotActiveReply)
        ELSE LET record == x.scenarios[g]
                 gone == LocalScenariosToKill(x.services, Range(record.handles))
             IN  TerminatePeers([x EXCEPT !.scenarios = pop_active_scenario(@, g),
                                          !.services = @ \ gone],
                                [rec EXCEPT !.removed = gone,
                                            !.adjacents = Range(record.sectors)],
                                Range(record.sectors) \ {m.from}, sid)

\* the source sector sends terminate_scenario to A
InjectTerminate(g) ==
  /\ terminations < MaxTerminate
  /\ injected < MaxSourceRequests
  /\ \A m \in net : ~(m.kind = "request" /\ FromSource(m.rpc))
  /\ injected' = injected + 1
  /\ terminations' = terminations + 1
  /\ net' = net \cup {[Request("A", SourceSector, g, NoLabel, None,
                                <<injected + 1>>)
                          EXCEPT !.func = "terminate_scenario"]}
  /\ UNCHANGED <<tasks, scenarios, qvalues, kspl, bandwidth, down, services,
                 labels, calls, faults, wire>>
  /\ UNCHANGED allocVars

\* the RPC server of m.to dispatches request m to __terminate_scenario
ServeTerminate(m) ==
  /\ m \in net /\ m.kind = "request" /\ m.func = "terminate_scenario"
  /\ m.to \in Controllers
  /\ LET c == m.to
         live == IF is_scenario_active(scenarios[c], m.gpsid)
                   THEN Range(scenarios[c][m.gpsid].sectors) \ {m.from} ELSE {}
     IN  \E sid \in NextSectors(live) :
           Finish(c, m.rpc, Terminate(c, m.rpc, m, Ctx(c), sid), TRUE, {m}, FALSE)
  /\ UNCHANGED <<down, injected, terminations, wire>>

\* the terminate_scenario RPC of the suspended invocation k returns: its
\* result is logged and the loop goes on
TerminateReply(k, m) ==
  /\ calls[k].func = "terminate_scenario"
  /\ calls[k].state = "waiting" /\ calls[k].sent
  /\ m \in net /\ m.kind = "response" /\ m.rpc = Append(k, calls[k].attempt)
  /\ LET c == calls[k].ctrl IN
       \E sid \in NextSectors(calls[k].sectors) :
         Finish(c, k,
                IF m.result = InternalError
                  THEN Returned(Ctx(c), calls[k], InternalError)
                  ELSE TerminatePeers(Ctx(c), calls[k], calls[k].sectors, sid),
                TRUE, {m}, FALSE)
  /\ UNCHANGED <<down, injected, terminations, wire>>

\* the terminate_scenario RPC of the suspended invocation k raises (the
\* receive times out, the socket breaks): the handler logs the error and
\* raises, and the server answers its own caller with status 1
TerminateRaise(k) ==
  /\ calls[k].func = "terminate_scenario"
  /\ calls[k].state = "waiting" /\ calls[k].sent
  /\ LET c == calls[k].ctrl IN
       Finish(c, k, Returned(Ctx(c), calls[k], InternalError), TRUE,
              {m \in net : m.kind = "response" /\ m.rpc = Append(k, calls[k].attempt)},
              TRUE)
  /\ UNCHANGED <<down, injected, terminations, wire>>

\* a sector that is not adjacent to c in the scenario (the source sector,
\* when c is not A) sends terminate_scenario to c
InjectTerminateAt(c, g) ==
  /\ terminations < MaxTerminate
  /\ injected < MaxSourceRequests
  /\ \A m \in net : ~(m.kind = "request" /\ FromSource(m.rpc))
  /\ injected' = injected + 1
  /\ terminations' = terminations + 1
  /\ net' = net \cup {[Request(c, SourceSector, g, NoLabel, None,
                              <<injected + 1>>)
                          EXCEPT !.func = "terminate_scenario"]}
  /\ UNCHANGED <<tasks, scenarios, qvalues, kspl, bandwidth, down, services,
                 labels, calls, faults, wire>>
  /\ UNCHANGED allocVars

\* the answers the controller of the source sector can give to the
\* terminate_scenario of A
SourceAnswers == {TerminateOk, NotActiveReply, InternalError}

\* the controller of the source sector answers the terminate_scenario m
SourceReply(m, answer) ==
  /\ m \in net /\ m.kind = "request" /\ m.func = "terminate_scenario"
  /\ m.to = SourceSector
  /\ net' = (net \ {m}) \cup (IF Awaited(m.rpc) THEN {Response(m.rpc, answer)}
                                ELSE {})
  /\ UNCHANGED <<tasks, scenarios, qvalues, kspl, bandwidth, down, services,
                 labels, calls, injected, faults, terminations, wire>>
  /\ UNCHANGED allocVars

(***************************************************************************)
(* The RPC transport: __PeerProxy and initialize_server.client_handler.    *)
(***************************************************************************)
MaxFrames == 2

\* the keys of _requests
Requests == {"req_local_time", "publish_event", "query_address_info",
             "activate_scenario", "terminate_scenario"}

\* a method name that is not in _requests
UnknownMethods == {"shutdown"}

NoFrame == [method |-> "", form |-> "none"]

\* a frame that unpickles to (func_name, args, kwargs)
TupleFrame(method) == [method |-> method, form |-> "tuple"]

\* a complete frame whose bytes do not decode
GarbageFrame == [method |-> "", form |-> "garbage"]

NoAnswer == [status |-> 0, text |-> "", arg |-> "", form |-> "none"]

\* the pickled tuple (status, body)
Answer(status, text, arg) ==
  [status |-> status, text |-> text, arg |-> arg, form |-> "ok"]

\* mutant: an exception of the handler is answered as a result
ExceptionAnswer_Result(debug, message) == Answer(0, "result", message)

\* the answer of "except Exception as ex"
ExceptionAnswer(debug, message) ==
  IF debug THEN Answer(1, "Unknown Request", message)
           ELSE Answer(1, "Internal Error", "Cannot process request.")

\* the answer of "except KeyError"
KeyErrorAnswer(func_name) == Answer(1, "Unknown Request", func_name)

\* the ways a method of _requests can end: it returns its result, it
\* returns the failure its own handlers made of an exception
\* (__activate_scenario), it raises, it raises KeyError
HandlerOutcomes(method) ==
  {"returns", "raises", "KeyError"}
    \cup (IF method = "activate_scenario" THEN {"refuses"} ELSE {})

\* one turn of the loop of client_handler on a complete frame: the answers
\* it sends and whether a method of _requests ran
Dispatch(frame, outcome, asserts, debug) ==
  IF frame.form = "garbage"
    THEN [ran |-> FALSE, answers |-> <<ExceptionAnswer(debug, "decode")>>]
  ELSE IF frame.method \notin Requests
    THEN [ran |-> FALSE,
          answers |-> <<IF asserts
                          THEN ExceptionAnswer(debug, "function name is not registered ")
                          ELSE KeyErrorAnswer(frame.method)>>]
  ELSE [ran |-> TRUE,
        answers |-> <<CASE outcome = "returns" -> Answer(0, "result", frame.method)
                        [] outcome = "refuses" -> Answer(0, "failure", "PathNotFound")
                        [] outcome = "KeyError" -> KeyErrorAnswer(frame.method)
                        [] OTHER -> ExceptionAnswer(debug, "raised")>>]

NoResult == [method |-> "", outcome |-> "none", error |-> "", text |-> "",
             form |-> "none", sent |-> FALSE, after_failure |-> FALSE]

\* the connection before its first frame; asserts and debug are the
\* interpreter flags of the server (assert statements compiled in,
\* sys.flags.debug), client tells who holds the other end
IdleWire(client, asserts, debug) ==
  [client |-> client, asserts |-> asserts, debug |-> debug,
   \* __PeerProxy: self.__closed and the state of self.__socket
   closed |-> FALSE, socket |-> "open",
   \* the request frame and the answer on their way
   request |-> NoFrame, answer |-> NoAnswer,
   \* the method the client waits the answer of
   waiting |-> "",
   \* the task of client_handler: "serving", "returned" or "ended"
   handler |-> "serving",
   \* the turns of the loop so far: frame, outcome of the method, whether
   \* it ran, the answers sent
   log |-> <<>>,
   \* the calls the client has begun, how the latest ended, and whether a
   \* send or receive of the proxy has failed
   begun |-> 0, result |-> NoResult, failed |-> FALSE]

\* the connection of a specification that does not exercise the transport
NoWire == IdleWire("proxy", TRUE, FALSE)

IdleWires == {IdleWire(client, asserts, debug) :
                client \in {"proxy", "raw"}, asserts \in BOOLEAN, debug \in BOOLEAN}

\* how a call of the proxy ends
Raised(method, error, sent) ==
  [method |-> method, outcome |-> "raised", error |-> error, text |-> "",
   form |-> "none", sent |-> sent, after_failure |-> wire.failed]

\* __getattr__ and remote_method_call up to the end of sendall
ProxyCall(method) ==
  /\ wire.client = "proxy" /\ wire.waiting = "" /\ wire.begun < MaxFrames
  /\ wire' =
       IF method \notin Requests
         THEN [wire EXCEPT !.begun = @ + 1,
                           !.result = Raised(method, "AttributeError", FALSE)]
       ELSE IF wire.closed
         THEN [wire EXCEPT !.begun = @ + 1,
                           !.result = Raised(method, "Socket Closed", FALSE)]
       ELSE IF wire.socket = "closed"
         \* sendall on the closed socket raises, and so does the shutdown of
         \* the except clause
         THEN [wire EXCEPT !.begun = @ + 1, !.failed = TRUE,
                           !.result = Raised(method, "OSError", FALSE)]
       ELSE [wire EXCEPT !.begun = @ + 1, !.waiting = method,
                         !.request = TupleFrame(method)]
  /\ UNCHANGED <<tasks, scenarios, qvalues, kspl, bandwidth, down, services,
                 labels, net, calls, injected, faults, terminations>>
  /\ UNCHANGED allocVars

\* remote_method_call from the first recv: the body of a status 0 answer is
\* returned; a short read, an answer that is no tuple and a status 1 answer
\* raise, and the except clause shuts the socket down and closes it
ProxyReturn ==
  /\ wire.client = "proxy" /\ wire.waiting # "" /\ wire.answer # NoAnswer
  /\ LET a == wire.answer
         error == IF a.form = "short" THEN "Socket Closed"
                  ELSE IF a.form = "malformed" \/ a.status # 0
                    THEN "UnexpectedResponse"
                  ELSE ""
     IN  wire' =
           IF error = ""
             THEN [wire EXCEPT !.waiting = "", !.answer = NoAnswer,
                               !.result = [method |-> wire.waiting,
                                           outcome |-> "returned", error |-> "",
                                           text |-> a.text, form |-> a.form,
                                           sent |-> TRUE,
                                           after_failure |-> wire.failed]]
             ELSE [wire EXCEPT !.waiting = "", !.answer = NoAnswer,
                               !.socket = "closed", !.failed = TRUE,
                               !.result = [Raised(wire.waiting, error, TRUE)
                                             EXCEPT !.text = a.text,
                                                    !.form = a.form]]
  /\ UNCHANGED <<tasks, scenarios, qvalues, kspl, bandwidth, down, services,
                 labels, net, calls, injected, faults, terminations>>
  /\ UNCHANGED allocVars

\* the answer reaches the proxy cut short, or as bytes that unpickle to
\* something else than a tuple
Garble(form) ==
  /\ wire.client = "proxy" /\ wire.answer.form = "ok"
  /\ wire' = [wire EXCEPT !.answer.form = form]
  /\ UNCHANGED <<tasks, scenarios, qvalues, kspl, bandwidth, down, services,
                 labels, net, calls, injected, faults, terminations>>
  /\ UNCHANGED allocVars

\* a client that is not a __PeerProxy sends a complete frame
RawSend(frame) ==
  /\ wire.client = "raw" /\ wire.waiting = "" /\ wire.begun < MaxFrames
  /\ wire' = [wire EXCEPT !.begun = @ + 1, !.waiting = "raw", !.request = frame]
  /\ UNCHANGED <<tasks, scenarios, qvalues, kspl, bandwidth, down, services,
                 labels, net, calls, injected, faults, terminations>>
  /\ UNCHANGED allocVars

\* that client reads the answer
RawReceive ==
  /\ wire.client = "raw" /\ wire.waiting # "" /\ wire.answer # NoAnswer
  /\ wire' = [wire EXCEPT !.waiting = "", !.answer = NoAnswer]
  /\ UNCHANGED <<tasks, scenarios, qvalues, kspl, bandwidth, down, services,
                 labels, net, calls, injected, faults, terminations>>
  /\ UNCHANGED allocVars

\* client_handler receives a complete frame, dispatches it and sends the
\* answer; the sendall is the last statement of the turn
ClientHandler(outcome) ==
  /\ wire.handler = "serving" /\ wire.request # NoFrame
  /\ outcome \in (IF wire.request.form = "tuple" /\ wire.request.method \in Requests
                    THEN HandlerOutcomes(wire.request.method) ELSE {"none"})
  /\ LET d == Dispatch(wire.request, outcome, wire.asserts, wire.debug)
     IN  wire' = [wire EXCEPT
                    !.request = NoFrame,
                    !.answer = IF Len(d.answers) > 0 THEN d.answers[Len(d.answers)]
                               ELSE @,
                    !.log = Append(@, [frame |-> wire.request, outcome |-> outcome,
                                       ran |-> d.ran, answers |-> d.answers])]
  /\ UNCHANGED <<tasks, scenarios, qvalues, kspl, bandwidth, down, services,
                 labels, net, calls, injected, faults, terminations>>
  /\ UNCHANGED allocVars

\* the recv of client_handler returns nothing once the proxy has closed its
\* socket: the task returns
HangUp ==
  /\ wire.handler = "serving" /\ wire.socket = "closed" /\ wire.request = NoFrame
  /\ wire' = [wire EXCEPT !.handler = "returned"]
  /\ UNCHANGED <<tasks, scenarios, qvalues, kspl, bandwidth, down, services,
                 labels, net, calls, injected, faults, terminations>>
  /\ UNCHANGED allocVars

\* the frames of a client that is not a proxy
RawFrames == {TupleFrame(method) : method \in Requests \cup UnknownMethods}
               \cup {GarbageFrame}

\* the outcomes the methods of _requests can have
Outcomes == UNION {HandlerOutcomes(method) : method \in Requests} \cup {"none"}

RpcNext ==
  \/ \E method \in Requests \cup UnknownMethods : ProxyCall(method)
  \/ ProxyReturn
  \/ \E form \in {"short", "malformed"} : Garble(form)
  \/ \E frame \in RawFrames : RawSend(frame)
  \/ RawReceive
  \/ \E outcome \in Outcomes : ClientHandler(outcome)
  \/ HangUp

EngineNext ==
  \/ \E g \in GpsIds : Inject(g)
  \/ \E m \in net : Serve(m)
  \/ \E k \in CallIds : \E m \in net : RpcReply(k, m)
  \/ \E k \in CallIds : RpcRaise(k)
  \/ \E k \in CallIds : ConnectRaise(k)

\* the allocator variables at rest
AllocIdle ==
  /\ origin = [a \in Allocators |-> LowerBound(a)]
  /\ counter = origin
  /\ pool = [a \in Allocators |-> <<>>]
  /\ lock = [a \in Allocators |-> NoThread]
  /\ pc = [t \in Threads |-> "idle"]
  /\ th = [t \in Threads |-> NoCall]
  /\ allocated = [a \in Allocators |-> EmptyBag]
  /\ last = NoLast

\* the path activation engine of the federation
InitEngine ==
  /\ AllocIdle
  /\ EngineInit
  /\ faults = 0
  /\ wire = NoWire

SpecEngine == InitEngine /\ [][EngineNext]_vars

\* the engine over the federation with every link up, peer connections and
\* peer calls failing
InitForward ==
  /\ AllocIdle
  /\ EngineInit
  /\ down = {}
  /\ faults = 0
  /\ wire = NoWire

SpecForward == InitForward /\ [][EngineNext]_vars

(***************************************************************************)
(* The Q and KSPL tables of one controller under arbitrary calls.          *)
(***************************************************************************)
TableOwner == "A"

TableKeys == {"AB1", "B"}

TableTargets == {AddrKey("hT")}

\* Q-values in thousandths, path lengths
TableValues == {0 - 900, 450}

TableLengths == {1, 2}

\* remaining_bandwidth_average of the local path of a hop
TableBandwidths == {0, 150}

\* the cells set_q_value / set_known_shortest_path were called on so far
WrittenQ == IF last.op = "none" THEN {} ELSE last.writtenQ

WrittenKspl == IF last.op = "none" THEN {} ELSE last.writtenKspl

TableCall(op, key, target, value, length, result, found) ==
  [op |-> op, key |-> key, target |-> target, value |-> value, length |-> length,
   result |-> result, found |-> found,
   writtenQ |-> WrittenQ \cup (IF op \in {"set_q_value", "hop"}
                                THEN {Cell(key, target)} ELSE {}),
   writtenKspl |-> WrittenKspl
                     \cup (IF op \in {"set_known_shortest_path", "hop"}
                             THEN {Cell(key, target)} ELSE {}),
   \* what the call met: the cell present in QValues, written before
   present |-> Cell(key, target) \in DOMAIN qvalues[TableOwner],
   written |-> Cell(key, target) \in (IF op \in {"get_q_value", "set_q_value"}
                                        THEN WrittenQ ELSE WrittenKspl)]

GetQ(key, target) ==
  /\ last' = TableCall("get_q_value", key, target, 0, 0,
                       get_q_value(qvalues[TableOwner], key, target), NoLength)
  /\ qvalues' = [qvalues EXCEPT ![TableOwner] = q_after_get(@, key, target)]
  /\ UNCHANGED <<counter, pool, lock, pc, th, allocated, origin>>
  /\ UNCHANGED <<tasks, scenarios, kspl, bandwidth, down, services, labels,
                 net, calls, injected, faults, terminations, wire>>

SetQ(key, target, value) ==
  /\ last' = TableCall("set_q_value", key, target, value, 0, 0, NoLength)
  /\ qvalues' = [qvalues EXCEPT ![TableOwner] = set_q_value(@, key, target, value)]
  /\ UNCHANGED <<counter, pool, lock, pc, th, allocated, origin>>
  /\ UNCHANGED <<tasks, scenarios, kspl, bandwidth, down, services, labels,
                 net, calls, injected, faults, terminations, wire>>

GetKspl(key, target) ==
  /\ last' = TableCall("get_known_shortest_path", key, target, 0, 0, 0,
                       get_known_shortest_path(kspl[TableOwner], key, target))
  /\ kspl' = [kspl EXCEPT ![TableOwner] = kspl_after_get(@, key, target)]
  /\ UNCHANGED <<counter, pool, lock, pc, th, allocated, origin>>
  /\ UNCHANGED <<tasks, scenarios, qvalues, bandwidth, down, services, labels,
                 net, calls, injected, faults, terminations, wire>>

SetKspl(key, target, length) ==
  /\ last' = TableCall("set_known_shortest_path", key, target, 0, length, 0, NoLength)
  /\ kspl' = [kspl EXCEPT ![TableOwner] =
                set_known_shortest_path(@, key, target, length)]
  /\ UNCHANGED <<counter, pool, lock, pc, th, allocated, origin>>
  /\ UNCHANGED <<tasks, scenarios, qvalues, bandwidth, down, services, labels,
                 net, calls, injected, faults, terminations, wire>>

\* the updates of a forwarding hop whose peer answered {success: true,
\* q_value: 1, path_length: length}
Hop(key, target, length, bandwidth_average) ==
  LET hop == HopUpdate(qvalues[TableOwner], kspl[TableOwner], key, target, target,
                       length, 1000, bandwidth_average)
  IN  /\ last' = TableCall("hop", key, target, bandwidth_average, length, hop.reward,
                           get_known_shortest_path(kspl[TableOwner], key, target))
      /\ kspl' = [kspl EXCEPT ![TableOwner] = hop.kspl]
      /\ qvalues' = [qvalues EXCEPT ![TableOwner] = hop.q]
      /\ UNCHANGED <<counter, pool, lock, pc, th, allocated, origin>>
      /\ UNCHANGED <<tasks, scenarios, bandwidth, down, services, labels,
                     net, calls, injected, faults, terminations, wire>>

InitTables ==
  /\ AllocIdle
  /\ EngineInit
  /\ down = {}
  /\ faults = 0
  /\ wire = NoWire

TablesNext ==
  \/ \E key \in TableKeys : \E target \in TableTargets : GetQ(key, target)
  \/ \E key \in TableKeys : \E target \in TableTargets :
       \E value \in TableValues : SetQ(key, target, value)
  \/ \E key \in TableKeys : \E target \in TableTargets : GetKspl(key, target)
  \/ \E key \in TableKeys : \E target \in TableTargets :
       \E length \in TableLengths : SetKspl(key, target, length)
  \/ \E key \in TableKeys : \E target \in TableTargets :
       \E length \in TableLengths : \E b \in TableBandwidths :
         Hop(key, target, length, b)

SpecTables == InitTables /\ [][TablesNext]_vars

(***************************************************************************)
(* The selection of the exploration loops of controller A over arbitrary   *)
(* Q tables.                                                               *)
(***************************************************************************)
\* the links and the sectors A can select, and the Q-values they can have
SelectKeys == {"AB1", "AB2", "AC", "B", "C"}

SelectValues == {0 - 900, 0, 450}

SelectTarget == "hT"

\* the Q tables of A with a value in every cell the selection reads
SelectTables == [{Cell(key, AddrKey(SelectTarget)) : key \in SelectKeys}
                   -> SelectValues]

\* the candidates a branch starts from: the links to the adjacent sectors
\* in the order of the sectors, the links to one adjacent sector, the
\* adjacent sectors
SelectStart(branch, order) ==
  [op |-> "select", branch |-> branch,
   links |-> IF branch = "icmp_explore" THEN LinksOver("A", order)
             ELSE IF branch = "icmp_adjacent" THEN query_edges_to_sector("A", "B")
             ELSE <<>>,
   sectors |-> IF branch = "ipv4_explore" THEN AdjacentSectors("A", SourceSector)
               ELSE {},
   cands |-> <<>>, candset |-> {}, sel |-> None, tried |-> <<>>]

\* an activation enters one of the loops
Explore(branch, order) ==
  /\ last.op = "none"
  /\ last' = SelectStart(branch, order)
  /\ UNCHANGED <<counter, pool, lock, pc, th, allocated, origin>>
  /\ UNCHANGED engineVars

\* one iteration of the loop up to its peer RPC, which fails; the loop of
\* the target-adjacent branch ends with its RPC
Select(pick) ==
  /\ last.op = "select"
  /\ Len(last.links) > 0 \/ last.sectors # {}
  /\ pick \in Picks(last.branch, Ctx("A"), last.sectors, SelectTarget)
  /\ LET out == Attempt("A", down, last.branch, Ctx("A"), last.links,
                        last.sectors, "SA", SelectTarget, pick)
     IN  /\ out.kind = "rpc"
         /\ last' = [last EXCEPT
                       !.cands = last.links, !.candset = last.sectors,
                       !.sel = out.sel, !.tried = Append(@, out.sel),
                       !.links = IF last.branch = "icmp_adjacent" THEN <<>>
                                 ELSE out.links,
                       !.sectors = out.sectors]
         /\ qvalues' = [qvalues EXCEPT !["A"] = out.x.q]
  /\ UNCHANGED <<counter, pool, lock, pc, th, allocated, origin>>
  /\ UNCHANGED <<tasks, scenarios, kspl, bandwidth, down, services, labels,
                 net, calls, injected, faults, terminations, wire>>

InitSelect ==
  /\ AllocIdle
  /\ tasks = [c \in Controllers |-> [cl \in TaskClasses |-> {}]]
  /\ scenarios = [c \in Controllers |-> <<>>]
  /\ qvalues \in {[c \in Controllers |-> IF c = "A" THEN t ELSE <<>>] :
                    t \in SelectTables}
  /\ kspl = [c \in Controllers |-> <<>>]
  /\ down = {}
  /\ bandwidth = [c \in Controllers |-> [l \in LinksAt(c) |-> PortCapacity]]
  /\ services = [c \in Controllers |-> {}]
  /\ labels = [c \in Controllers |-> [counter |-> MPLS_LABEL_ID_INITIAL, pool |-> <<>>]]
  /\ net = {}
  /\ calls = <<>>
  /\ injected = 0
  /\ faults = 0
  /\ terminations = 0
  /\ wire = NoWire

SelectNext ==
  \/ \E branch \in {"icmp_explore", "icmp_adjacent", "ipv4_explore"} :
       \E order \in SectorOrders(AdjacentSectors("A", SourceSector)) :
         Explore(branch, order)
  \/ \E pick \in AdjacentSectors("A", SourceSector) \cup {None} : Select(pick)

SpecSelect == InitSelect /\ [][SelectNext]_vars

\* activation and termination over a federation whose ports are all up and
\* whose peer calls all return
InitTerminate ==
  /\ AllocIdle
  /\ EngineInit
  /\ down = {}
  /\ faults = MaxFaults
  /\ wire = NoWire

TerminateNext ==
  \/ \E g \in TerminableGpsIds : Inject(g)
  \/ \E m \in net : Serve(m)
  \/ \E k \in CallIds : \E m \in net : RpcReply(k, m)
  \/ \E g \in TerminableGpsIds : InjectTerminate(g)
  \/ \E m \in net : ServeTerminate(m)
  \/ \E k \in CallIds : \E m \in net : TerminateReply(k, m)

SpecTerminate == InitTerminate /\ [][TerminateNext]_vars

\* the sectors terminate_scenario is sent to from outside the federation
TerminateEntries == {"A", "B"}

\* termination over a federation whose ports are all up and whose
\* terminate_scenario RPCs can fail
InitTerminateFaults ==
  /\ AllocIdle
  /\ EngineInit
  /\ down = {}
  /\ faults = 0
  /\ wire = NoWire

TerminateFaultsNext ==
  \/ \E g \in SourceGpsIds : Inject(g)
  \/ \E m \in net : Serve(m)
  \/ \E k \in CallIds : \E m \in net : RpcReply(k, m)
  \/ \E c \in TerminateEntries : \E g \in SourceGpsIds : InjectTerminateAt(c, g)
  \/ \E m \in net : ServeTerminate(m)
  \/ \E k \in CallIds : \E m \in net : TerminateReply(k, m)
  \/ \E k \in CallIds : TerminateRaise(k)
  \/ \E m \in net : \E answer \in SourceAnswers : SourceReply(m, answer)

SpecTerminateFaults == InitTerminateFaults /\ [][TerminateFaultsNext]_vars

\* one connection to the RPC server, under each setting of the interpreter
\* flags and each kind of client
InitRpc ==
  /\ AllocIdle
  /\ EngineInit
  /\ down = {}
  /\ faults = 0
  /\ wire \in IdleWires

SpecRpc == InitRpc /\ [][RpcNext]_vars

(***************************************************************************)
(* Properties of activate_scenario.                                        *)
(***************************************************************************)
\* the invocation has returned
Done(k) == calls[k].state = "done"

\* the invocation was answered "task already being executed" or "already
\* implemented"
Refused(k) ==
  /\ Done(k)
  /\ ~calls[k].reply.success
  /\ calls[k].reply.reason \in {"TaskExists", "already implemented"}

\* the invocation was answered with success and left the scenario registered
Succeeded(k) == Done(k) /\ calls[k].reply.success /\ calls[k].registered

\* an invocation that met, at its entry, an invocation in flight for its
\* gpsid at its controller, or the scenario registered there, is refused
OthersRefused ==
  \A k \in DOMAIN calls :
    (calls[k].inflight # {} \/ calls[k].active) => Refused(k)

\* C8: while an activate_scenario call for a gpsid is in flight at a
\* controller or the scenario is registered there, every other call for the
\* gpsid is refused (task exists / already implemented); of two concurrent
\* calls at most one succeeds, and a call that succeeds has registered the
\* scenario.
C8_IdempotentActivation ==
  /\ OthersRefused
  /\ \A k \in DOMAIN calls : \A j \in calls[k].inflight :
       ~(Succeeded(j) /\ Succeeded(k))
  /\ \A k \in DOMAIN calls :
       (Done(k) /\ calls[k].reply.success) => calls[k].registered

\* C8 as it is stated: of two concurrent calls, once both have returned,
\* exactly one has succeeded and registered the scenario
C8_ExactlyOneSucceeds ==
  /\ OthersRefused
  /\ \A k \in DOMAIN calls : \A j \in calls[k].inflight :
       (Done(j) /\ Done(k)) => (Succeeded(j) # Succeeded(k))

\* a call was refused with TaskExists while another was in flight, and the
\* one in flight went on to succeed and to register the scenario
C8_Witness ==
  \E k \in DOMAIN calls : \E j \in calls[k].inflight :
    /\ Refused(k) /\ calls[k].reply.reason = "TaskExists"
    /\ Succeeded(j)
    /\ is_scenario_active(scenarios[calls[j].ctrl], calls[j].gpsid)

\* a call refused because the scenario was registered already
C8_WitnessRegistered ==
  \E k \in DOMAIN calls :
    calls[k].active /\ Refused(k) /\ calls[k].reply.reason = "already implemented"

\* the request m collides with a held token at its controller
Collides(m) ==
  /\ m.kind = "request" /\ m.to \in Controllers
  /\ m.gpsid[1] # m.to
  /\ ~is_scenario_active(scenarios[m.to], m.gpsid)
  /\ m.gpsid \in tasks[m.to][TaskClassOf(m.gpsid[4])]

\* C9: a call that collides with a held task token returns TaskExists at
\* once, and the step changes nothing at the controller: no bandwidth is
\* reserved, no label allocated, no request sent to a peer, no Q-value or
\* known path length written, no scenario or service registered, and the
\* guard set is as before.
C9_LosingCallHasNoEffect ==
  [][\A m \in net :
       (Collides(m) /\ m.rpc \notin DOMAIN calls /\ m.rpc \in DOMAIN calls')
         => /\ calls'[m.rpc].state = "done"
            /\ calls'[m.rpc].reply = Failure("TaskExists")
            /\ bandwidth' = bandwidth
            /\ labels' = labels
            /\ qvalues' = qvalues
            /\ kspl' = kspl
            /\ scenarios' = scenarios
            /\ services' = services
            /\ tasks' = tasks
            /\ {n \in net' \ net : n.kind = "request"} = {}]_vars

\* a call has lost against a held token while the holder had built its path
\* and was waiting for its peer
C9_Witness ==
  \E k \in DOMAIN calls : \E j \in calls[k].inflight :
    /\ calls[k].reply = Failure("TaskExists")
    /\ calls[j].state = "waiting"
    /\ calls[j].token = calls[k].gpsid

\* C10: at every controller and for every class and gpsid, the token is in
\* the guard set if and only if an activation of the gpsid is in progress
\* there; so a call is refused with TaskExists only when it met an activation
\* in flight, never because of one that has returned.
C10_TokenIffInProgress ==
  /\ \A c \in Controllers, cls \in TaskClasses, g \in GpsIds :
       g \in tasks[c][cls] <=> (cls = TaskClassOf(g[4]) /\ InFlight(c, g) # {})
  /\ \A c \in Controllers, cls \in TaskClasses : tasks[c][cls] \subseteq GpsIds
  /\ \A k \in DOMAIN calls :
       (Done(k) /\ calls[k].reply.reason = "TaskExists") => calls[k].inflight # {}

\* a call left by PathNotFound, and a later call of the same caller for the
\* same gpsid at the same controller was not refused with TaskExists
C10_Witness ==
  \E j, k \in DOMAIN calls :
    /\ Caller(j) = Caller(k) /\ AttemptOf(j) < AttemptOf(k)
    /\ calls[j].ctrl = calls[k].ctrl /\ calls[j].gpsid = calls[k].gpsid
    /\ Done(j) /\ calls[j].reply = Failure("PathNotFound")
    /\ calls[k].state # "unused" /\ calls[k].reply.reason # "TaskExists"
    /\ calls[k].inflight = {}

\* C11: activate_scenario at the controller the search started from replies
\* failure at once ("the search has reached the source controller") and
\* leaves the controller as it found it: no token, no path, no label, no
\* request to a peer, no change of the registry.
C11_LoopRefused ==
  \A k \in DOMAIN calls :
    calls[k].gpsid[1] = calls[k].ctrl
      => /\ Done(k)
         /\ calls[k].reply = Failure("loop detected")
         /\ calls[k].quiet
         /\ calls[k].attempt = 0

\* the search that started at A was handed to A
C11_Witness ==
  \E k \in DOMAIN calls :
    calls[k].ctrl = "A" /\ calls[k].gpsid = LoopGpsId /\ Done(k)

(***************************************************************************)
(* Properties of terminate_scenario.                                       *)
(***************************************************************************)
\* the invocation is a terminate_scenario of gpsid g
Terminates(k, g) == calls[k].func = "terminate_scenario" /\ calls[k].gpsid = g

\* terminate_scenario(g) of the source sector was answered with success at
\* the first sector, no terminate_scenario of g is under way anywhere, and
\* no activation of g was started since
TerminationOver(t, g) ==
  /\ Terminates(t, g) /\ FromSource(t) /\ Done(t) /\ calls[t].reply.success
  /\ \A k \in DOMAIN calls : Terminates(k, g) => Done(k)
  /\ \A m \in net : m.kind = "request" => m.gpsid # g
  /\ \A k \in DOMAIN calls :
       (calls[k].func = "activate_scenario" /\ calls[k].gpsid = g)
         => k \in calls[t].known

\* the services at controller c that an activation of g installed
ServicesOf(c, g) == {s \in services[c] : calls[s.handle[2]].gpsid = g}

\* label is allocated at controller c and has not been freed
LabelOutstanding(c, label) ==
  /\ label # NoLabel
  /\ Leq(label, labels[c].counter)
  /\ label \notin Range(labels[c].pool)

\* once the termination of g is over, no sector holds a record of g or a
\* service of its handles
RegistriesCleared(g) ==
  \A c \in Controllers :
    /\ ~is_scenario_active(scenarios[c], g)
    /\ ServicesOf(c, g) = {}

\* once the termination of g is over, the labels of the services it removed
\* are no longer outstanding
LabelsReleased(g) ==
  \A k \in DOMAIN calls :
    Terminates(k, g) =>
      \A s \in calls[k].removed : ~LabelOutstanding(calls[k].ctrl, s.label)

TerminationClearsRegistries ==
  \A t \in DOMAIN calls : \A g \in TerminableGpsIds :
    TerminationOver(t, g) => RegistriesCleared(g)

\* C12: after a successful activation along a chain, once
\* terminate_scenario(gpsid) has been invoked on the first sector and its
\* propagation has completed without an RPC failure, every sector that held
\* a record of gpsid has no scenario record, no service-table entry for its
\* handles, and the MPLS labels allocated for it are no longer outstanding.
C12_TerminationSymmetric ==
  \A t \in DOMAIN calls : \A g \in TerminableGpsIds :
    TerminationOver(t, g) => RegistriesCleared(g) /\ LabelsReleased(g)

\* a termination that went from A over B to T is over
C12_ChainTerminated ==
  \E t \in DOMAIN calls : \E g \in TerminableGpsIds :
    /\ TerminationOver(t, g)
    /\ \A c \in {"A", "B", "T"} :
         \E k \in DOMAIN calls : Terminates(k, g) /\ calls[k].ctrl = c
                                   /\ calls[k].reply.success

(***************************************************************************)
(* Properties of the forwarding branches.                                  *)
(***************************************************************************)
\* the invocation has handled the failure of a selected peer
Penalised(k) == calls[k].func = "activate_scenario" /\ calls[k].penalised.made

\* the answers of a forwarding branch that has run out of candidates
ExhaustedReasons == {"alternatives exhausted", "No available sectors to explore"}

\* after the failure of a selected peer the failed candidate is out of the
\* list, and the branch gives up only when no other candidate is left
FailedPeerDropped ==
  \A k \in DOMAIN calls :
    Penalised(k) =>
      /\ calls[k].penalised.dropped
      /\ calls[k].penalised.reply.reason \in ExhaustedReasons
           => calls[k].penalised.left = 0

\* C13: in every forwarding branch, when the RPC to the selected peer
\* returns failure, raises or times out, the Q-value of the chosen link is
\* updated with reward -1 and the peer's forward_q (0 if absent), the link
\* leaves the candidates and the loop goes on; the request fails only after
\* no candidate remains.
C13_FailedPeerPenalised ==
  \A k \in DOMAIN calls :
    Penalised(k) =>
      /\ calls[k].penalised.stored = calls[k].penalised.expected
      /\ calls[k].penalised.dropped
      /\ calls[k].penalised.reply.reason \in ExhaustedReasons
           => calls[k].penalised.left = 0

\* the invocation runs an exploration loop
Explores(k) ==
  /\ calls[k].func = "activate_scenario"
  /\ calls[k].branch \in {"icmp_explore", "ipv4_explore"}

\* the candidates of the exploration loop of invocation k at its start
Candidates(k) ==
  LET c == calls[k].ctrl
      adjacents == query_sectors_ids(c) \ {calls[k].requester}
  IN  IF calls[k].branch = "icmp_explore"
        THEN UNION {Range(query_edges_to_sector(c, n)) : n \in adjacents}
        ELSE adjacents

\* an exploration that PathNotFound ended had no candidate left
PathNotFoundLast(k) ==
  (Done(k) /\ calls[k].reply.reason = "PathNotFound") => calls[k].unexplored = 0

\* every candidate gone from the list of a suspended exploration is the one
\* of a peer RPC or one that no path led to
OnlyThatLinkRemoved(k) ==
  calls[k].state = "waiting" =>
    Cardinality(Range(calls[k].links) \cup calls[k].sectors)
      + Cardinality(calls[k].skipped) + calls[k].attempt
    = Cardinality(Candidates(k))

IcmpPathNotFoundSkipped ==
  \A k \in DOMAIN calls :
    (Explores(k) /\ calls[k].branch = "icmp_explore")
      => PathNotFoundLast(k) /\ OnlyThatLinkRemoved(k)

\* C14: when the construction of the local path raises PathNotFound for a
\* selected link inside the exploration loop (ICMPv4 and generic IPv4
\* alike), only that link leaves the candidates and the loop goes on;
\* PathNotFound reaches the caller only when the candidate list is empty.
C14_PathNotFoundSkipped ==
  \A k \in DOMAIN calls :
    Explores(k) => PathNotFoundLast(k) /\ OnlyThatLinkRemoved(k)

\* an ICMPv4 exploration went on after a link that no path led to
IcmpSkippedAndWentOn ==
  \E k \in DOMAIN calls :
    /\ calls[k].branch = "icmp_explore" /\ calls[k].skipped # {}
    /\ calls[k].state = "waiting"

\* the forwarding branch of invocation k ended without a success: the run
\* that handled the failure of its last candidate returned
RanOut(k) ==
  /\ Penalised(k) /\ Done(k)
  /\ calls[k].penalised.left = 0
  /\ calls[k].penalised.reply # NoReply

AdjacentRanOut ==
  \E k \in DOMAIN calls :
    RanOut(k) /\ calls[k].branch \in {"icmp_adjacent", "ipv4_adjacent"}

(***************************************************************************)
(* Properties of the replies.                                              *)
(***************************************************************************)
\* invocation k is an activate_scenario at the sector of its target host
AtTarget(k) ==
  /\ calls[k].func = "activate_scenario" /\ Done(k)
  /\ calls[k].ctrl = OwnerOf(calls[k].gpsid[3])

\* the service that invocation k installed at its controller
ServiceOf(k) == {s \in services[calls[k].ctrl] : s.handle = <<calls[k].ctrl, k>>}

\* the reasons for which the target sector answers without having looked
\* for, or without having found, the local path
TargetRefusals ==
  {"loop detected", "already implemented", "TaskExists", "PathNotFound", "Exception"}

\* C16: when the target host is owned by this controller and the local path
\* is found, activate_scenario registers the scenario with adjacents =
\* {requesting sector} and replies {success, q_value: 1, path_length:
\* len(path) - 1}, sends no peer RPC and changes no Q or KSPL value.
C16_TargetSectorReply ==
  \A k \in DOMAIN calls :
    AtTarget(k) =>
      /\ calls[k].attempt = 0
      /\ calls[k].sameTables
      /\ ~calls[k].reply.success => calls[k].reply.reason \in TargetRefusals
      /\ calls[k].reply.success =>
           /\ calls[k].registered
           /\ is_scenario_active(scenarios[calls[k].ctrl], calls[k].gpsid)
           /\ scenarios[calls[k].ctrl][calls[k].gpsid]
                = [handles |-> <<<<calls[k].ctrl, k>>>>,
                   sectors |-> <<calls[k].requester>>]
           /\ \E s \in ServiceOf(k) :
                calls[k].reply = Success(1000, s.path.length - 1)

\* the target sector has answered a request of scenario type t with success
TargetAnswered(t) ==
  \E k \in DOMAIN calls :
    /\ AtTarget(k) /\ calls[k].reply.success /\ calls[k].gpsid[4] = t
    /\ ServiceOf(k) # {}

C16_Witness == TargetAnswered("ICMPv4") \/ TargetAnswered("IPv4")

\* invocation k forwarded the request and its peer succeeded
Forwarded(k) ==
  /\ calls[k].func = "activate_scenario" /\ Done(k)
  /\ calls[k].ctrl # OwnerOf(calls[k].gpsid[3])
  /\ calls[k].reply.success

\* the invocation that the last peer RPC of invocation k started
Callee(k) == Append(k, calls[k].attempt)

\* the length of the local path of invocation k
LocalLength(k) == (CHOOSE s \in ServiceOf(k) : TRUE).path.length

\* the sum of the local path lengths, and the number of sectors, of the
\* chain that starts with invocation k
RECURSIVE ChainLength(_)
ChainLength(k) ==
  LocalLength(k) + (IF AtTarget(k) THEN 0 ELSE ChainLength(Callee(k)))

RECURSIVE ChainSectors(_)
ChainSectors(k) == 1 + (IF AtTarget(k) THEN 0 ELSE ChainSectors(Callee(k)))

\* C17: on peer success in a forwarding branch the sector registers the
\* scenario with adjacents = {requester, chosen neighbour} and replies
\* {success, q_value: new_q, path_length: len(local path) +
\* peer.path_length - 1}, new_q being the Q-value just computed for the
\* chosen link; along a chain the reported path_length is the sum of the
\* local path lengths minus the number of sectors.
C17_ForwardingReply ==
  \A k \in DOMAIN calls :
    Forwarded(k) =>
      /\ calls[k].attempt >= 1 /\ Callee(k) \in DOMAIN calls
      /\ Done(Callee(k)) /\ calls[Callee(k)].reply.success
      /\ calls[k].registered
      /\ is_scenario_active(scenarios[calls[k].ctrl], calls[k].gpsid)
      /\ scenarios[calls[k].ctrl][calls[k].gpsid]
           = [handles |-> <<<<calls[k].ctrl, k>>>>,
              sectors |-> <<calls[k].requester, calls[Callee(k)].ctrl>>]
      /\ \E s \in ServiceOf(k) :
           LET peer == calls[Callee(k)].reply
               reward == (1000 * s.path.remaining_bandwidth_average)
                           \div (peer.path_length + 1)
           IN  /\ calls[k].reply.path_length = s.path.length + peer.path_length - 1
               /\ calls[k].reply.has_q
               /\ calls[k].reply.q_value
                    = calculate_new_qvalue(calls[k].old_q, peer.q_value, reward)
      /\ calls[k].reply.path_length = ChainLength(k) - ChainSectors(k)

\* the first sector of a chain of three sectors has answered with success
C17_Witness ==
  \E k \in DOMAIN calls :
    Forwarded(k) /\ FromSource(k) /\ ChainSectors(k) = 3

(***************************************************************************)
(* Properties of the Q and KSPL tables.                                    *)
(***************************************************************************)
\* get_q_value of a cell never written returns 0, get_known_shortest_path
\* of a cell never written returns None
UnwrittenDefaults ==
  /\ (last.op = "get_q_value" /\ ~last.written) => last.result = 0
  /\ (last.op = "get_known_shortest_path" /\ ~last.written)
       => last.found = NoLength

\* after set_q_value(key, target, v), get_q_value(key, target) returns v
QRoundTrip ==
  last.op = "set_q_value"
    => get_q_value(qvalues[TableOwner], last.key, last.target) = last.value

\* the same holds of a cell that is not in QValues when it is set
QRoundTripOfNewCell ==
  (last.op = "set_q_value" /\ ~last.present)
    => get_q_value(qvalues[TableOwner], last.key, last.target) = last.value

\* after set_known_shortest_path(key, target, n), get_known_shortest_path
\* returns n
KsplRoundTrip ==
  last.op = "set_known_shortest_path"
    => get_known_shortest_path(kspl[TableOwner], last.key, last.target)
         = <<last.length>>

\* C18: after set_q(key, target, v), get_q(key, target) returns v for every
\* key, target and value, whether or not the cell was written or read
\* before; get_q of a cell never written returns 0 and get_kspl of a cell
\* never written returns None.
C18_SetGetRoundTrip == QRoundTrip /\ UnwrittenDefaults

\* the Q-value stored after the peer of invocation k succeeded is the one
\* the update computed, and from 0 it is positive when bandwidth remains
StoredAfterSuccess(k) ==
  Forwarded(k) =>
    /\ calls[k].stored_q = calls[k].new_q
    /\ \A s \in ServiceOf(k) :
         (calls[k].old_q = 0 /\ s.path.remaining_bandwidth_average > 0)
           => calls[k].stored_q > 0

\* the Q-value stored after the peer of invocation k failed is the one the
\* update computed, and from 0 it is negative when the peer gave no Q-value
StoredAfterFailure(k) ==
  Penalised(k) =>
    /\ calls[k].penalised.stored = calls[k].penalised.expected
    /\ (calls[k].penalised.old = 0 /\ calls[k].penalised.forward = 0)
         => calls[k].penalised.stored < 0

\* the update computes what the formula says from what it read
UpdateComputed ==
  \A k \in DOMAIN calls :
    /\ Forwarded(k) =>
         \A s \in ServiceOf(k) :
           calls[k].new_q
             = calculate_new_qvalue(
                 calls[k].old_q, calls[Callee(k)].reply.q_value,
                 (1000 * s.path.remaining_bandwidth_average)
                   \div (calls[Callee(k)].reply.path_length + 1))
    /\ Penalised(k) =>
         calls[k].penalised.expected
           = calculate_new_qvalue(calls[k].penalised.old,
                                  calls[k].penalised.forward, 0 - 1000)

\* C19: after a forwarding hop the Q-value stored for the chosen link and
\* target, as get_q_value reads it back, is old_q + 0.9 * (reward + 0.1 *
\* forward_q - old_q), the reward being remaining_bandwidth_average / kspl
\* on peer success and -1 on peer failure; from Q = 0 it is strictly
\* positive after a success with bandwidth left and strictly negative after
\* a failure with forward_q = 0.
C19_StoredQValue ==
  \A k \in DOMAIN calls : StoredAfterSuccess(k) /\ StoredAfterFailure(k)

IsTerminate(k) == calls[k].func = "terminate_scenario"

\* C21: terminate_scenario for a gpsid that is not active at the controller
\* (never activated, activation failed, already terminated) replies
\* failure, sends no peer RPC and leaves the scenario registry and the
\* service tables as they are.
C21_InactiveTerminateRefused ==
  \A k \in DOMAIN calls :
    (IsTerminate(k) /\ ~calls[k].active) =>
      /\ Done(k) /\ calls[k].reply = Failure("not active")
      /\ calls[k].attempt = 0
      /\ calls[k].quiet
      /\ calls[k].removed = {}

\* a second terminate_scenario for a gpsid whose first one succeeded
C21_Witness ==
  \E j, k \in DOMAIN calls :
    /\ IsTerminate(j) /\ IsTerminate(k) /\ calls[j].gpsid = calls[k].gpsid
    /\ calls[j].ctrl = calls[k].ctrl
    /\ calls[j].active /\ Done(j) /\ calls[j].reply.success
    /\ ~calls[k].active /\ Done(k)

\* every entry of the service tables belongs to a registered scenario
ServicesRegistered ==
  \A c \in Controllers : \A s \in services[c] :
    \E g \in DOMAIN scenarios[c] : s.handle \in Range(scenarios[c][g].handles)

\* the step that starts the terminate_scenario k of an active gpsid takes
\* the record and exactly the entries of its handles out of the tables
RemovesRecordAndEntries(k) ==
  LET c == calls'[k].ctrl
      g == calls'[k].gpsid
      handles == Range(scenarios[c][g].handles)
  IN  /\ scenarios'[c] = [h \in DOMAIN scenarios[c] \ {g} |-> scenarios[c][h]]
      /\ services'[c] = {s \in services[c] : s.handle \notin handles}
      /\ \A m \in net' \ net :
           (m.kind = "request" /\ m.from = c) => m.func = "terminate_scenario"

\* C22: terminate_scenario on an active gpsid removes the scenario record
\* and every service-table entry of the record's handles in one step with
\* respect to the other tasks (nobody sees the record gone while such an
\* entry remains, and the removal precedes every peer RPC); the entries of
\* other scenarios stay as they are.
C22_AtomicRemoval ==
  [][/\ ServicesRegistered'
     /\ \A k \in DOMAIN calls' \ DOMAIN calls :
          (calls'[k].func = "terminate_scenario" /\ calls'[k].active)
            => RemovesRecordAndEntries(k)]_vars

\* a termination has removed the service of its scenario at a controller
\* where the service of another scenario stays installed
C22_Witness ==
  \E k \in DOMAIN calls :
    /\ IsTerminate(k) /\ calls[k].active /\ calls[k].removed # {}
    /\ services[calls[k].ctrl] # {}
    /\ calls[k].gpsid \notin DOMAIN scenarios[calls[k].ctrl]

(***************************************************************************)
(* Properties of the scenario registry.                                    *)
(***************************************************************************)
\* invocation k is an activate_scenario
IsActivate(k) == calls[k].func = "activate_scenario"

\* the record of g at c was registered by the successful activation k
RegisteredBy(c, g, k) ==
  /\ IsActivate(k) /\ Done(k) /\ calls[k].reply.success
  /\ calls[k].ctrl = c /\ calls[k].gpsid = g
  /\ scenarios[c][g].handles = <<<<c, k>>>>
  \* no terminate_scenario of g at c found the record since
  /\ \A j \in DOMAIN calls :
       (IsTerminate(j) /\ calls[j].ctrl = c /\ calls[j].gpsid = g
          /\ calls[j].active) => k \notin calls[j].known

\* every record has handles and adjacent sectors and comes from a
\* successful activation that no termination has followed
RecordsWellFormed ==
  \A c \in Controllers : \A g \in DOMAIN scenarios[c] :
    /\ Len(scenarios[c][g].handles) > 0
    /\ Len(scenarios[c][g].sectors) > 0
    /\ \E k \in DOMAIN calls : RegisteredBy(c, g, k)

\* invocation k returns in this step
Returns(k) == k \in DOMAIN calls' /\ calls'[k].state = "done"
              /\ (k \in DOMAIN calls => calls[k].state # "done")

\* a record appears in the step in which an activation of its gpsid returns
\* success at its controller, disappears in the step that starts a
\* terminate_scenario of its gpsid there, and an activation that returns
\* failure leaves the registry of its controller as it is
RecordsComeAndGo ==
  /\ \A c \in Controllers : \A g \in DOMAIN scenarios'[c] \ DOMAIN scenarios[c] :
       \E k \in DOMAIN calls' :
         /\ Returns(k) /\ calls'[k].func = "activate_scenario"
         /\ calls'[k].ctrl = c /\ calls'[k].gpsid = g /\ calls'[k].reply.success
  /\ \A c \in Controllers : \A g \in DOMAIN scenarios[c] \ DOMAIN scenarios'[c] :
       \E k \in DOMAIN calls' \ DOMAIN calls :
         /\ calls'[k].func = "terminate_scenario"
         /\ calls'[k].ctrl = c /\ calls'[k].gpsid = g
  /\ \A k \in DOMAIN calls' :
       (Returns(k) /\ calls'[k].func = "activate_scenario"
          /\ ~calls'[k].reply.success) => scenarios' = scenarios

\* C24: a scenario record of gpsid exists at a controller only as the
\* result of an activate_scenario of gpsid that replied success there, and
\* only until the next terminate_scenario of gpsid; an activation that
\* replies failure leaves the registry unchanged; every record has a
\* non-empty tuple of handles and a non-empty tuple of adjacent sectors.
C24_RecordLifetime == [][RecordsWellFormed' /\ RecordsComeAndGo]_vars

\* a scenario that was terminated at A is registered there again
C24_Witness ==
  \E k, j \in DOMAIN calls : \E g \in DOMAIN scenarios["A"] :
    /\ RegisteredBy("A", g, k)
    /\ IsTerminate(j) /\ calls[j].ctrl = "A" /\ calls[j].gpsid = g
    /\ calls[j].active /\ Done(j)

\* the activation k invokes set_active_scenario in this step: it returns
\* success, which only the two registering returns of __activate_scenario do
Registers(k) == Returns(k) /\ calls'[k].func = "activate_scenario"
                /\ calls'[k].reply.success

\* C25: at most one active scenario per id: under any interleaving of
\* activate_scenario and terminate_scenario at a controller,
\* set_active_scenario is never invoked for a gpsid that is active there.
C25_NeverRegisteredTwice ==
  [][\A k \in DOMAIN calls' :
       Registers(k) =>
         /\ calls'[k].gpsid \notin DOMAIN scenarios[calls'[k].ctrl]
         /\ calls'[k].gpsid \in DOMAIN scenarios'[calls'[k].ctrl]
         /\ \A g \in DOMAIN scenarios[calls'[k].ctrl] :
              scenarios'[calls'[k].ctrl][g] = scenarios[calls'[k].ctrl][g]]_vars

\* an activation, a termination and a second activation of one scenario have
\* run at A: the scenario is registered once, by the second activation
C25_Witness ==
  \E j, k, t \in DOMAIN calls :
    /\ j # k /\ IsActivate(j) /\ IsActivate(k) /\ IsTerminate(t)
    /\ calls[j].ctrl = "A" /\ calls[k].ctrl = "A" /\ calls[t].ctrl = "A"
    /\ calls[j].gpsid = calls[k].gpsid /\ calls[t].gpsid = calls[k].gpsid
    /\ Done(j) /\ calls[j].reply.success
    /\ calls[t].active /\ j \in calls[t].known /\ k \notin calls[t].known
    /\ Succeeded(k) /\ ~calls[k].active
    /\ calls[k].gpsid \in DOMAIN scenarios["A"]

(***************************************************************************)
(* The order of the steps of a forwarding activation.                      *)
(***************************************************************************)
\* the activation k waits for the reply of the peer it forwarded to
AwaitsPeer(k) == IsActivate(k) /\ calls[k].state = "waiting"

\* what has happened when the peer RPC of activation k is under way: the
\* token is held, the path is built and its label allocated, and neither the
\* service is installed nor the scenario registered
BeforePeerReply(k) ==
  LET c == calls[k].ctrl
      g == calls[k].gpsid
  IN  /\ g \in tasks[c][TaskClassOf(g[4])]
      /\ calls[k].token = g
      /\ calls[k].path.length > 0
      /\ LabelOutstanding(c, calls[k].label)
      /\ calls[k].peer \in query_sectors_ids(c) \ {calls[k].requester}
      /\ ServiceOf(k) = {}
      /\ ~is_scenario_active(scenarios[c], g)

\* the activation k registers in a step that consumes the success reply of
\* its peer and installs its service
RegistersAfterPeer(k) ==
  /\ k \in DOMAIN calls /\ AwaitsPeer(k) /\ BeforePeerReply(k)
  /\ \E m \in net \ net' :
       /\ m.kind = "response" /\ m.rpc = Callee(k) /\ m.result.success
  /\ Callee(k) \in DOMAIN calls /\ Succeeded(Callee(k))
  /\ \E s \in services'[calls[k].ctrl] \ services[calls[k].ctrl] :
       /\ s.handle = <<calls[k].ctrl, k>>
       /\ scenarios'[calls[k].ctrl][calls[k].gpsid].handles = <<s.handle>>

\* C26: within one forwarding activation the steps occur in the order
\* acquire-task-token, build-path, alloc-label, peer-RPC, install-service,
\* register-scenario: the scenario is registered at a forwarding sector
\* only after the peer has replied success and the local service has been
\* installed, and is_scenario_active(gpsid) is false for every other task
\* at that controller until the register step.
C26_ActivationOrder ==
  [][/\ \A k \in DOMAIN calls' :
          (calls'[k].func = "activate_scenario" /\ calls'[k].state = "waiting")
            => BeforePeerReply(k)'
     /\ \A k \in DOMAIN calls' :
          (Registers(k) /\ calls'[k].ctrl # OwnerOf(calls'[k].gpsid[3]))
            => RegistersAfterPeer(k)]_vars

\* a forwarding activation has registered its scenario, and an activation
\* that arrived while it waited for its peer found the scenario not active
C26_Witness ==
  \E j, k \in DOMAIN calls :
    /\ Forwarded(k) /\ Succeeded(k) /\ ServiceOf(k) # {}
    /\ Succeeded(Callee(k))
    /\ IsActivate(j) /\ Done(j) /\ calls[j].ctrl = calls[k].ctrl
    /\ calls[j].gpsid = calls[k].gpsid
    /\ k \in calls[j].inflight /\ ~calls[j].active

(***************************************************************************)
(* Termination during an activation.                                       *)
(***************************************************************************)
\* the terminate_scenario t arrived while an activation of its gpsid was in
\* flight at its controller
MetInFlight(t) == IsTerminate(t) /\ calls[t].inflight # {}

\* C27: a terminate_scenario of gpsid that arrives at a controller while an
\* activation of gpsid is in flight there (token held, scenario not
\* registered) replies failure, releases no token and removes nothing, and
\* the in-flight activation afterwards still registers the scenario if its
\* peer succeeds.
C27_NoOutsideCancellation ==
  \A t \in DOMAIN calls :
    MetInFlight(t) =>
      /\ Done(t) /\ ~calls[t].reply.success
      /\ calls[t].quiet /\ calls[t].removed = {} /\ calls[t].attempt = 0
      /\ \A k \in calls[t].inflight :
           /\ AwaitsPeer(k) =>
                /\ calls[k].gpsid \in tasks[calls[k].ctrl][TaskClassOf(calls[k].gpsid[4])]
                /\ calls[k].token = calls[k].gpsid
           /\ (Done(k) /\ Callee(k) \in DOMAIN calls /\ Succeeded(Callee(k)))
                => Succeeded(k)

\* a terminate_scenario met an activation in flight, and that activation
\* has registered its scenario since
C27_Witness ==
  \E t \in DOMAIN calls : \E k \in calls[t].inflight :
    /\ MetInFlight(t) /\ Done(t)
    /\ Succeeded(k) /\ calls[k].gpsid \in DOMAIN scenarios[calls[k].ctrl]

(***************************************************************************)
(* The terminate_scenario RPCs of a termination.                           *)
(***************************************************************************)
\* the sectors the termination k owes its RPC
OwedSectors(k) == calls[k].adjacents \ {calls[k].requester}

\* the termination k has sent one RPC to each of the sectors it owes one,
\* and none to anyone else
EachOwedCalledOnce(k) ==
  /\ Range(calls[k].called) = OwedSectors(k)
  /\ Len(calls[k].called) = Cardinality(OwedSectors(k))

\* C23: terminate_scenario on an active gpsid sends exactly one
\* terminate_scenario RPC to each adjacent sector of the popped record other
\* than the requester and none to the requester, whatever the outcome of
\* the RPCs to the other sectors; when such an RPC fails the local removal
\* is not rolled back.
C23_EachAdjacentTerminated ==
  [][\A k \in DOMAIN calls' :
       (Returns(k) /\ calls'[k].func = "terminate_scenario" /\ calls'[k].active)
         => /\ EachOwedCalledOnce(k)'
            /\ k \in DOMAIN calls =>
                 /\ scenarios'[calls'[k].ctrl] = scenarios[calls'[k].ctrl]
                 /\ services'[calls'[k].ctrl] = services[calls'[k].ctrl]]_vars

\* a termination that owed two sectors its RPC has returned
TwoSectorsOwed ==
  \E k \in DOMAIN calls :
    IsTerminate(k) /\ Done(k) /\ Cardinality(OwedSectors(k)) = 2

(***************************************************************************)
(* Properties of the RPC transport.                                        *)
(***************************************************************************)
\* the turns of client_handler on a frame that names a method outside
\* _requests
UnknownTurns ==
  {i \in DOMAIN wire.log : /\ wire.log[i].frame.form = "tuple"
                            /\ wire.log[i].frame.method \notin Requests}

\* C28: a request whose method is not in the dispatch table is answered
\* with status 1 and a body "Unknown Request: ...", no handler is run, and
\* the connection keeps serving.
C28_UnknownMethodAnswered ==
  \A i \in UnknownTurns :
    /\ ~wire.log[i].ran
    /\ Len(wire.log[i].answers) = 1
    /\ wire.log[i].answers[1].status = 1
    /\ wire.log[i].answers[1].text = "Unknown Request"
    /\ wire.handler = "serving"

\* C29: after a send or receive failure of a call of the peer proxy (short
\* read, malformed reply, status 1 reply) the socket of the proxy is shut
\* down and the proxy closed: every later call on that proxy fails with the
\* Socket Closed error and sends nothing.
C29_ProxyClosedAfterFailure ==
  /\ wire.failed => wire.socket = "closed"
  /\ (wire.result.after_failure /\ wire.result.method \in Requests)
       => /\ wire.result.outcome = "raised"
          /\ wire.result.error = "Socket Closed"
          /\ ~wire.result.sent

\* the answer of the turn i of client_handler
Answered(i) == wire.log[i].answers[1]

\* the turn i sent one answer: status 0 with the result when the method ran
\* and returned (a failure __activate_scenario made of an exception of its
\* own included), status 1 with an error text otherwise
OneAnswer(i) ==
  /\ Len(wire.log[i].answers) = 1
  /\ Answered(i).status \in {0, 1}
  /\ Answered(i).status = 0
       <=> (wire.log[i].ran /\ wire.log[i].outcome \in {"returns", "refuses"})
  /\ Answered(i).status = 0 =>
       Answered(i).text = (IF wire.log[i].outcome = "refuses" THEN "failure"
                           ELSE "result")
  /\ Answered(i).status = 1 =>
       Answered(i).text \in {"Unknown Request", "Internal Error"}

\* the call of the proxy that has just ended on an answer that arrived whole
\* returned its body when its status was 0 and raised when it was 1
ProxyFollowsStatus ==
  (wire.client = "proxy" /\ wire.waiting = "" /\ wire.result.sent
     /\ wire.result.form = "ok")
    => LET a == Answered(Len(wire.log))
       IN  /\ wire.result.text = a.text
           /\ a.status = 0 => wire.result.outcome = "returned"
           /\ a.status = 1 => /\ wire.result.outcome = "raised"
                               /\ wire.result.error = "UnexpectedResponse"

\* C30: for every completely received request frame the server sends
\* exactly one reply, status 0 with the result when the method returned
\* (an exception inside activate_scenario becomes a status 0 failure),
\* status 1 with an error string when the request was malformed or the
\* method raised; the handler task survives and serves the next request;
\* the proxy returns the body on status 0 and raises on status 1.
C30_OneReplyPerFrame ==
  /\ \A i \in DOMAIN wire.log : OneAnswer(i)
  /\ wire.client = "raw" =>
       Len(wire.log) + (IF wire.request = NoFrame THEN 0 ELSE 1) = wire.begun
  /\ wire.handler = "serving" \/ wire.socket = "closed"
  /\ ProxyFollowsStatus

\* the handler answered a method that raised with status 1 and then the
\* next request of the connection with status 0
C30_Witness ==
  /\ Len(wire.log) = 2
  /\ wire.log[1].outcome = "raises" /\ Answered(1).status = 1
  /\ wire.log[2].outcome = "refuses" /\ Answered(2).status = 0

(***************************************************************************)
(* The next hops of a forwarding activation.                               *)
(***************************************************************************)
\* the sectors the activation k may forward to
Forwardable(k) == query_sectors_ids(calls[k].ctrl) \ {calls[k].requester}

\* an activation that reached the forwarding branches of a sector with no
\* adjacent sector besides the requesting one
NowhereToForward(k) ==
  /\ IsActivate(k) /\ calls[k].state # "unused"
  /\ calls[k].ctrl # OwnerOf(calls[k].gpsid[3])
  /\ calls[k].gpsid[4] \in {"ICMPv4", "IPv4"}
  /\ calls[k].requester \in query_sectors_ids(calls[k].ctrl)
  /\ ~calls[k].active /\ calls[k].inflight = {}
  /\ Forwardable(k) = {}

\* such an activation fails at once: nothing is built, allocated or sent
EmptyAdjacentsRefused ==
  \A k \in DOMAIN calls :
    NowhereToForward(k) =>
      /\ Done(k)
      /\ calls[k].reply = Failure("No available sectors to explore")
      /\ calls[k].attempt = 0
      /\ calls[k].quiet

\* the activate_scenario requests the controllers send in this step
ForwardedRequests ==
  {m \in net' \ net : /\ m.kind = "request" /\ m.func = "activate_scenario"
                       /\ m.from \in Controllers}

\* the request m goes to an adjacent sector that is neither the sender nor
\* the sector that requested the activation, and over a link to the owner
\* of the target when that owner is among those sectors
ForwardedToCandidate(m) ==
  LET k == Caller(m.rpc)
      owner == OwnerOf(m.gpsid[3])
  IN  /\ calls'[k].ctrl = m.from
      /\ m.to \in query_sectors_ids(m.from)
      /\ m.to # calls'[k].requester
      /\ m.to # m.from
      /\ owner \in query_sectors_ids(m.from) \ {calls'[k].requester} =>
           /\ m.to = owner
           /\ m.hash \in Range(query_edges_to_sector(m.from, owner))

\* C31: in a forwarding activation the candidate next hops are drawn only
\* from query_sectors_ids() minus the requesting sector: if that set is
\* empty the reply is the failure "no available sectors to explore" with no
\* path built and no label allocated, an activate_scenario RPC is never
\* sent back to the requesting sector nor to the controller itself, and
\* when the owner of the target is in that set the request is forwarded
\* only over links to that owner.
C31_NextHopsAmongAdjacents ==
  [][/\ EmptyAdjacentsRefused'
     /\ \A m \in ForwardedRequests : ForwardedToCandidate(m)]_vars

\* a sector whose only neighbour is the requesting one has refused, and a
\* sector adjacent to the owner of the target has forwarded to that owner
C31_Witness ==
  /\ \E k \in DOMAIN calls : NowhereToForward(k) /\ Done(k)
  /\ \E k \in DOMAIN calls :
       /\ Forwarded(k) /\ OwnerOf(calls[k].gpsid[3]) \in Forwardable(k)
       /\ calls[Callee(k)].ctrl = OwnerOf(calls[k].gpsid[3])

(***************************************************************************)
(* The selection of the next candidate.                                    *)
(***************************************************************************)
\* the Q-value the selection read for candidate key
SelectQ(key) == get_q_value(qvalues["A"], key, AddrKey(SelectTarget))

\* the candidates the latest iteration chose from
Offered == Range(last.cands) \cup last.candset

\* the selected candidate is the first never-used one of the list (one of
\* the never-used ones of a set), or one of the largest Q-value when every
\* candidate has been used
FirstNeverUsedElseBest ==
  /\ last.sel \in Offered
  /\ IF \E n \in Offered : SelectQ(n) = 0
       THEN /\ SelectQ(last.sel) = 0
            /\ \A i, j \in DOMAIN last.cands :
                 (last.cands[i] = last.sel /\ j < i) => SelectQ(last.cands[j]) # 0
       ELSE \A n \in Offered : SelectQ(n) <= SelectQ(last.sel)

\* no candidate is selected twice in one activation
NeverSelectedAgain ==
  \A i, j \in DOMAIN last.tried : i # j => last.tried[i] # last.tried[j]

\* C32: in each iteration of the exploration loop, if a remaining candidate
\* has Q(candidate, target_ip) = 0 the first such candidate in list order
\* is selected, otherwise the candidate of maximum Q(candidate, target_ip);
\* a candidate tried in this activation is never selected again.
C32_SelectionRule ==
  (last.op = "select" /\ last.sel # None) =>
    /\ FirstNeverUsedElseBest
    /\ NeverSelectedAgain
    /\ last.sel \notin Range(last.links) \cup last.sectors

\* the third iteration of a loop chose among used candidates only, after a
\* never-used one had been taken before a better used one
C32_Witness ==
  /\ last.op = "select" /\ Len(last.tried) = 3
  /\ SelectQ(last.tried[1]) = 0
  /\ SelectQ(last.tried[2]) > 0
  /\ SelectQ(last.tried[3]) < 0

(***************************************************************************)
(* The allocation of the local MPLS label.                                 *)
(***************************************************************************)
\* the allocator of controller c after one alloc_mpls_label_id, and the
\* label that call returned
OneLabelAllocated(c, label) ==
  LET al == alloc_mpls_label_id(labels[c])
  IN  /\ al.outcome = "ok"
      /\ labels'[c] = [counter |-> al.counter, pool |-> al.pool]
      /\ label = al.value
      /\ label # NoLabel

\* the activation k enters and returns success in this step at the sector
\* of its target
ActivatesAtTarget(k) ==
  /\ k \notin DOMAIN calls /\ Registers(k)
  /\ calls'[k].ctrl = OwnerOf(calls'[k].gpsid[3])

\* a label is allocated at the target sector exactly when the local path
\* has three triples or more; the installer gets no label otherwise
LabelIffLongPath(k) ==
  LET c == calls'[k].ctrl IN
  \E s \in services'[c] \ services[c] :
    /\ s.handle = <<c, k>>
    /\ s.path.length >= 1
    /\ s.path.length >= 3 => OneLabelAllocated(c, s.label)
    /\ s.path.length < 3 => (s.label = NoLabel /\ labels'[c] = labels[c])

\* the activation k starts a peer RPC attempt in this step
StartsAttempt(k) ==
  /\ k \in DOMAIN calls' /\ calls'[k].func = "activate_scenario"
  /\ calls'[k].state = "waiting"
  /\ k \in DOMAIN calls => calls'[k].attempt = calls[k].attempt + 1

\* C33: in the target-in-this-sector branch a local MPLS label is allocated
\* if and only if the local path has at least 3 triples; with 1 or 2
\* triples the label passed to the installer is null and the allocator is
\* unchanged.  In every forwarding branch exactly one fresh label is
\* allocated per peer RPC attempt, whatever the path length.
C33_LabelAllocation ==
  [][\A k \in DOMAIN calls' :
       /\ ActivatesAtTarget(k) => LabelIffLongPath(k)
       /\ StartsAttempt(k) =>
            /\ OneLabelAllocated(calls'[k].ctrl, calls'[k].label)
            /\ \A j \in DOMAIN calls :
                 calls[j].ctrl = calls'[k].ctrl => calls[j].label # calls'[k].label
       /\ (calls'[k].func = "activate_scenario" /\ Returns(k)
             /\ (k \in DOMAIN calls => calls[k].state # "done")
             /\ ~ActivatesAtTarget(k))
            => labels'[calls'[k].ctrl] = labels[calls'[k].ctrl]]_vars

\* a target sector has installed a service without a label and another one
\* with a label, and a forwarding sector has called a peer
C33_Witness ==
  /\ \E c \in Controllers : \E s \in services[c] :
       s.handle[2] \in DOMAIN calls /\ AtTarget(s.handle[2]) /\ s.label = NoLabel
  /\ \E c \in Controllers : \E s \in services[c] :
       s.handle[2] \in DOMAIN calls /\ AtTarget(s.handle[2]) /\ s.label # NoLabel
  /\ \E k \in DOMAIN calls :
       /\ calls[k].func = "activate_scenario" /\ calls[k].attempt >= 1
       /\ calls[k].label # NoLabel

(***************************************************************************)
(* The lengths written to the KSPL table.                                  *)
(***************************************************************************)
\* the replies of activate_scenario that exist: those of the calls that
\* returned and those in flight
ActivationReplies ==
  {calls[k].reply : k \in {j \in DOMAIN calls : IsActivate(j) /\ Done(j)}}
    \cup {m.result : m \in {n \in net : n.kind = "response"}}

SuccessLengthsNatural ==
  \A r \in ActivationReplies : r.success => r.path_length >= 0

\* every length in a KSPL table is an integer of at least 1; a cell that
\* was only read holds None
KsplPositive ==
  \A c \in Controllers : \A cell \in DOMAIN kspl[c] :
    kspl[c][cell] # NoLength => kspl[c][cell][1] >= 1

\* the activation k consumes the success reply of its peer in this step
PeerSucceeded(k) ==
  /\ k \in DOMAIN calls /\ AwaitsPeer(k)
  /\ \E m \in net \ net' :
       m.kind = "response" /\ m.rpc = Callee(k) /\ m.result.success
  \* the call returned: no receive timeout, no socket error
  /\ faults' = faults

\* C34: every success reply carries path_length >= 0, so every KSPL value
\* written is an integer >= 1 and the assertion 'kspl cannot be Zero or
\* None' never fails: a sector whose peer replied success goes on to
\* register the scenario and replies success itself.
C34_KsplAssertionHolds ==
  [][/\ SuccessLengthsNatural' /\ KsplPositive'
     /\ \A k \in DOMAIN calls :
          PeerSucceeded(k) =>
            /\ Registers(k) /\ calls'[k].reply.success
            /\ \E cell \in DOMAIN kspl'[calls[k].ctrl] :
                 kspl'[calls[k].ctrl][cell] # NoLength]_vars

\* a forwarding sector has written a length to its KSPL table after the
\* success reply of its peer and has replied success itself
C34_Witness ==
  /\ \E k \in DOMAIN calls :
       /\ IsActivate(k) /\ Done(k) /\ calls[k].reply.success
       /\ calls[k].ctrl # OwnerOf(calls[k].gpsid[3])
  /\ \E c \in Controllers : \E cell \in DOMAIN kspl[c] : kspl[c][cell] # NoLength

(***************************************************************************)
(* Termination of an activation.                                           *)
(***************************************************************************)
\* one activation request of the source sector, followed to its end
InjectFirst(g) == injected = 0 /\ Inject(g)

LiveNext ==
  \/ \E g \in GpsIds : InjectFirst(g)
  \/ \E m \in net : Dispatch_activate_scenario(m)
  \/ \E k \in CallIds : \E m \in net : RpcReply(k, m)
  \/ \E k \in CallIds : RpcRaise(k)
  \/ \E k \in CallIds : ConnectRaise(k)

\* the server thread of a sector runs every request it has received, a
\* reply that has arrived is delivered to the greenlet that waits for it,
\* and a connection that cannot be made raises
Scheduling ==
  /\ WF_vars(\E m \in net : Dispatch_activate_scenario(m))
  /\ WF_vars(\E k \in CallIds : \E m \in net : RpcReply(k, m))
  /\ WF_vars(\E k \in CallIds : ConnectRaise(k))

SpecLive == InitForward /\ [][LiveNext]_vars /\ Scheduling

\* the activate_scenario invocations that have not returned: those whose
\* request is on its way to its sector and those being run
Invoked ==
  {m.rpc : m \in {n \in net : n.kind = "request" /\ n.func = "activate_scenario"}}
    \cup {k \in DOMAIN calls : IsActivate(k) /\ ~Done(k)}

\* the activate_scenario invocations that have returned their reply
Replied == {k \in DOMAIN calls : IsActivate(k) /\ Done(k)}

FailsAfterForwarding(k) ==
  /\ k \in DOMAIN calls /\ AwaitsPeer(k)
  /\ Returns(k) /\ ~calls'[k].reply.success

\* C36: an activation that ends in failure at a sector leaks no MPLS label:
\* the label obtained from alloc_mpls_label_id for a forwarding attempt has
\* been freed by the time the failure reply is produced, so the outstanding
\* labels after a failed activate_scenario are those before it.
C36_FailureFreesLabels ==
  [][\A k \in DOMAIN calls :
       FailsAfterForwarding(k)
         => LET c == calls[k].ctrl
                label == calls[k].label
            IN  \/ Leq(labels'[c].counter, label) /\ labels'[c].counter # label
                \/ label \in Range(labels'[c].pool)]_vars

(***************************************************************************)
(* The records of the peers of an activation that fails.                   *)
(***************************************************************************)
\* the invocations the activation k made at its peers
PeerCalls(k) ==
  {j \in DOMAIN calls : IsActivate(j) /\ Len(j) = Len(k) + 1
                         /\ SubSeq(j, 1, Len(k)) = k}

\* the activation k has ended without registering the scenario
EndedUnregistered(k) ==
  IsActivate(k) /\ Done(k) /\ ~calls[k].reply.success

\* C37: distributed activation is all-or-nothing: whenever the activation
\* of a sector has ended without registering the scenario, no sector it
\* forwarded the request to retains the active scenario record its
\* invocation registered for that gpsid.
C37_AllOrNothing ==
  \A k \in DOMAIN calls :
    EndedUnregistered(k) =>
      \A j \in PeerCalls(k) :
        ~RegisteredBy(calls[j].ctrl, calls[j].gpsid, j)

(***************************************************************************)
(* The Q cell of a forwarding attempt.                                     *)
(***************************************************************************)
\* the cell the selection read for the candidate the attempt of k chose
SelectionCell(k) == Cell(calls[k].sel, AddrKey(calls[k].gpsid[3]))

\* the attempt of k ends in this step with its Q update, in a branch that
\* selects its candidate by Q-value
UpdatesQ(k) ==
  /\ k \in DOMAIN calls /\ AwaitsPeer(k) /\ calls'[k] # calls[k]
  /\ calls[k].branch \in {"icmp_adjacent", "icmp_explore", "ipv4_explore"}
  \* get_controller_proxy is outside the try of the target-adjacent branch
  /\ calls[k].sent \/ calls[k].branch # "icmp_adjacent"

\* the update read old_q from a cell the table already had: get_q_value
\* creates the cell it does not find
UpdateReadsSelectionCell(k) ==
  LET c == calls[k].ctrl IN
  /\ SelectionCell(k) \in DOMAIN qvalues[c]
  /\ DOMAIN qvalues'[c] = DOMAIN qvalues[c]

\* C38: for each forwarding attempt, the Q-table cell (key, target) that the
\* selection step reads for the chosen candidate is the same cell that the
\* subsequent Q update reads as old_q and writes new_q to, in every branch,
\* on success and on failure.
C38_UpdateOnSelectionCell ==
  [][\A k \in DOMAIN calls : UpdatesQ(k) => UpdateReadsSelectionCell(k)]_vars

(***************************************************************************)
(* Requests of a scenario type without a branch.                           *)
(***************************************************************************)
\* searches of the source sector for scenario types __activate_scenario
\* has no branch for
UntypedGpsIds == {<<"S", "hS", "hT", "MPLS">>, <<"S", "hS", "hT", "UDP">>}

TypesNext ==
  \/ \E g \in SourceGpsIds \cup UntypedGpsIds : Inject(g)
  \/ \E m \in net : Serve(m)
  \/ \E k \in CallIds : \E m \in net : RpcReply(k, m)

SpecTypes == InitTerminate /\ [][TypesNext]_vars

\* the request m of a scenario type without a branch is run in this step
ServesUntyped(m) ==
  /\ m \in net \ net' /\ m.kind = "request" /\ m.func = "activate_scenario"
  /\ m.gpsid[4] \notin {"ICMPv4", "IPv4"}

\* the sector of m has answered and nothing else has happened
OnlyRefused(m) ==
  /\ m.rpc \in DOMAIN calls' /\ calls'[m.rpc].state = "done"
  /\ calls'[m.rpc].reply = Failure("invalid scenario type")
  /\ calls'[m.rpc].token = NoGps
  /\ tasks' = tasks /\ bandwidth' = bandwidth /\ labels' = labels
  /\ services' = services /\ scenarios' = scenarios
  /\ qvalues' = qvalues /\ kspl' = kspl
  /\ {n \in net' : n.kind = "request"} \subseteq net

RefusedByToken(m) ==
  Collides(m) /\ m.rpc \notin DOMAIN calls /\ m.rpc \in DOMAIN calls'

\* the activations that hold the token m asks for
HoldersOf(m) ==
  {j \in DOMAIN calls : IsActivate(j) /\ calls[j].ctrl = m.to
                         /\ calls[j].token = m.gpsid}

\* C40: a failed token acquisition never releases the holder's token: when
\* register_implementation_task raises ImplementationTaskExists, the guard
\* set is unchanged both at the raise and after the rejected token object
\* has been destroyed, and the holder still holds its token.
C40_HolderKeepsToken ==
  [][\A m \in net :
       RefusedByToken(m) =>
         /\ HoldersOf(m) # {}
         /\ \A j \in HoldersOf(m) :
              calls'[j].token = m.gpsid /\ calls'[j].state = "waiting"
         /\ m.gpsid \in tasks'[m.to][TaskClassOf(m.gpsid[4])]
         /\ \A cls \in TaskClasses : tasks'[m.to][cls] = tasks[m.to][cls]]_vars

\* an acquisition has failed against the token of an activation that waits
\* for its peer, and the holder has gone on to register the scenario
C40_Witness ==
  \E k \in DOMAIN calls : \E j \in calls[k].inflight :
    /\ calls[k].reply = Failure("TaskExists")
    /\ Succeeded(j) /\ calls[j].gpsid = calls[k].gpsid

\* the allocators under concurrent callers
InitAlloc ==
  /\ AllocInit
  /\ EngineInit
  /\ down = {}
  /\ faults = 0
  /\ wire = NoWire

SpecAlloc == InitAlloc /\ [][AllocNext]_vars

====
